---------------------------- MODULE Spec2Model ----------------------------
(***************************************************************************)
(* Master volume-growth controller of weed/server/                         *)
(* master_grpc_server_volume.go: the scanner and the dispatcher goroutines *)
(* of ProcessGrowRequest, the growth goroutine the dispatcher launches,    *)
(* DoAutomaticVolumeGrow, and the synchronous VolumeGrow RPC.              *)
(***************************************************************************)
EXTENDS Naturals, Integers, Sequences, FiniteSets, Bags, TLC

(***************************************************************************)
(* Bounds of the model.                                                    *)
(***************************************************************************)
\* requests alive at once (being sent, queued, examined or growing)
MaxReq == 2
\* capacity of volumeGrowthRequestChan
ChanCap == 1
\* free volume slots of each data center at start
MaxFree == 2
\* largest value GetLastGrowCount returns
MaxCount == 1
\* ids in one LookupVolume request
MaxIds == 3
\* (chunk, replica) pairs of one fs.verify run
MaxChunks == 3
\* largest -concurrency
MaxConcurrency == 2
\* volume replicas in the topology volume.recycle collects
MaxVolumes == 2
\* BucketAccessControlPolicy objects GetAccessControlPolicy makes in one run
MaxPolicies == 2

\* the word size of a uint32 half (two 16-bit limbs make one uint32)
Limb == 65536

(***************************************************************************)
(* The universe: two volume layouts and two data centers.                  *)
(* Layout "a" has replica placement 000, layout "b" has 001.               *)
(***************************************************************************)
LayoutList == <<"a", "b">>
Layouts == {LayoutList[i] : i \in 1..Len(LayoutList)}
DcList == <<"dc1", "dc2">>
DataCenters == {DcList[i] : i \in 1..Len(DcList)}

ReplicaPlacementOf(l) == IF l = "a" THEN <<0, 0, 0>> ELSE <<0, 0, 1>>
GetCopyCount(rp) == rp[1] + rp[2] + rp[3] + 1
CopyCountOf(l) == GetCopyCount(ReplicaPlacementOf(l))

(***************************************************************************)
(* uint32 values as two 16-bit limbs, so that the product of line 322      *)
(* wraps as the Go product does.                                           *)
(***************************************************************************)
U32(n) == [hi |-> (n \div Limb) % Limb, lo |-> n % Limb]
\* uint32(a) * uint32(c), for a small c
Mul32(u, c) ==
    LET p == u.lo * c
    IN  [hi |-> (u.hi * c + (p \div Limb)) % Limb, lo |-> p % Limb]
\* int64(n) < int64(u) for a small natural n
LessThanU32(n, u) == u.hi > 0 \/ n < u.lo
\* a uint32 as a loop bound: j iterations have not exhausted it
BelowU32(j, u) == u.hi > 0 \/ j < u.lo

VARIABLES
    isLeader,        \* ms.Topo.IsLeader()
    growRequest,     \* VolumeLayout guard, per layout
    volumeGrowthRequestChan,
    scanPc, scanIdx, scanDc, scanReq,   \* the scanner goroutine
    scanLeaderless,  \* IsLeader() has been false since the scan iteration began
    dispPc, req, found,                 \* the dispatcher goroutine
    filter,          \* the dispatcher's sync.Map of requests being processed
    growing,         \* the growth goroutines, one per accepted request
    free,            \* Topology: free volume slots per data center
    retired,         \* DoneGrowRequest calls counted on the requests that are gone
    rpcPc, rpcReq, rpcOption, rpcErr, rpcRun, rpcRet, rpcFree0,  \* VolumeGrow
    isDisableVacuum, \* Topology: the vacuum switch
    vacuumCalls,     \* the volume ids Topo.Vacuum has been called with
    layoutIndex,     \* the volume layouts that exist, with their Stats()
    readonly,        \* the (volume id, data node) pairs marked read-only
    maxVolumeCount,  \* Topology: GetDiskUsages().GetMaxVolumeCount()
    adminPc, adminCall, adminRet, adminResp,   \* the other RPCs of the master
    lookupPc, lookupIds, lookupAt, lookupResp, lookupErr,   \* LookupVolume
    verifyPc, verifyArgs, verifyTodo, verifyChan, verifyWg, verifyRunning,
    verifyClosed,    \* fs.verify
    verifyRet,       \* the error fs.verify's Do returns
    recyclePc, recycleArgs, recycleTopo, recycleIds, recycleMap, recycleAt,
    recycleCalls, recycleRet,  \* volume.recycle
    chanCap,         \* cap(volumeGrowthRequestChan)
    sleepRand, scanPause,  \* the sleep of the scanner, line 72
    entryPc, entryArgs, entryTodo, entryAt, entryGo,   \* verifyEntry
    itemIsVerifed, errorCount, fileCount,
    policies, acpMade, acpCalls, acpReturned,  \* BucketAccessControlPolicies
    writePc, writeReq, writeRet   \* checkAccessForWriteObject

scanVars == <<scanPc, scanIdx, scanDc, scanReq, scanLeaderless>>
dispVars == <<dispPc, req, found>>
topoVars == <<free>>
adminTopoVars == <<isDisableVacuum, vacuumCalls, layoutIndex, readonly,
                   maxVolumeCount>>
adminVars == <<adminPc, adminCall, adminRet, adminResp>>
lookupVars == <<lookupPc, lookupIds, lookupAt, lookupResp, lookupErr>>
verifyVars == <<verifyPc, verifyArgs, verifyTodo, verifyChan, verifyWg,
                verifyRunning, verifyClosed, verifyRet>>
recycleVars == <<recyclePc, recycleArgs, recycleTopo, recycleIds, recycleMap,
                 recycleAt, recycleCalls, recycleRet>>
streamVars == <<chanCap>>
pauseVars == <<sleepRand, scanPause>>
entryVars == <<entryPc, entryArgs, entryTodo, entryAt, entryGo, itemIsVerifed,
               errorCount, fileCount>>
acpVars == <<policies, acpMade, acpCalls, acpReturned>>
writeVars == <<writePc, writeReq, writeRet>>
otherVars == <<recycleVars, streamVars, pauseVars, entryVars, acpVars, writeVars>>
restVars == <<adminTopoVars, adminVars, lookupVars, verifyVars, otherVars>>
rpcVars == <<rpcPc, rpcReq, rpcOption, rpcErr, rpcRun, rpcRet, rpcFree0>>
ctlVars == <<growRequest, volumeGrowthRequestChan, scanVars, dispVars, filter,
             growing, retired>>
vars == <<isLeader, ctlVars, topoVars, rpcVars, restVars>>

(***************************************************************************)
(* VolumeGrowRequest.  dones counts the DoneGrowRequest calls made for     *)
(* the request.                                                            *)
(***************************************************************************)
NoReq == [layout |-> "", dc |-> "", force |-> FALSE, count |-> 0, reason |-> "",
          dones |-> 0]
\* a request with the Option (layout, data center), Count, Force and Reason
NewRequest(option, count, force, reason) ==
    [layout |-> option.layout, dc |-> option.dc, force |-> force, count |-> count,
     reason |-> reason, dones |-> 0]
\* VolumeLayoutCollection.ToGrowOption: the layout's option, no data center
ToGrowOption(l) == [layout |-> l, dc |-> ""]
\* the request as the filter holds it
KeyOf(r) == [layout |-> r.layout, dc |-> r.dc, force |-> r.force, count |-> r.count,
             reason |-> r.reason]
\* VolumeGrowRequest.Equals: the Options compare equal
Equals(a, b) == a.layout = b.layout /\ a.dc = b.dc

(***************************************************************************)
(* The guard of a VolumeLayout.                                            *)
(***************************************************************************)
HasGrowRequest(l) == growRequest[l]
AddGrowRequest(g, l) == [g EXCEPT ![l] = TRUE]
DoneGrowRequest(g, l) == [g EXCEPT ![l] = FALSE]

(***************************************************************************)
(* Topology.                                                               *)
(***************************************************************************)
DataCenterExists(dc) == dc = "" \/ dc \in DataCenters
SumFree(f, S) ==
    LET RECURSIVE Sum(_)
        Sum(T) == IF T = {} THEN 0
                  ELSE LET d == CHOOSE x \in T : TRUE IN f[d] + Sum(T \ {d})
    IN  Sum(S)
AvailableSpaceFor(f, dc) ==
    IF dc = "" THEN SumFree(f, DataCenters)
    ELSE IF dc \in DataCenters THEN f[dc] ELSE 0

(***************************************************************************)
(* AutomaticGrowByType: creates up to count volumes for the layout, each   *)
(* with its copies in one data center (the pinned one when dc is set),     *)
(* and returns the new locations, one per replica, and whether it failed.  *)
(* GrowResults is the set of what a call may return.                       *)
(***************************************************************************)
\* the locations of one new volume: its copies take the topmost free slots of d
LocationsOf(f, d, copies) == [k \in 1..copies |-> <<d, f[d] - k + 1>>]
Candidates(f, dc, copies) ==
    {d \in DataCenters : (dc = "" \/ dc = d) /\ f[d] >= copies}
RECURSIVE GrowFrom(_, _, _, _, _, _)
GrowFrom(f, locs, j, l, dc, count) ==
    \* stop here: with an error unless all count volumes were made
    {[locs |-> locs, err |-> BelowU32(j, count), free |-> f]}
    \cup
    (IF BelowU32(j, count)
     THEN UNION {GrowFrom([f EXCEPT ![d] = @ - CopyCountOf(l)],
                          locs \o LocationsOf(f, d, CopyCountOf(l)),
                          j + 1, l, dc, count)
                 : d \in Candidates(f, dc, CopyCountOf(l))}
     ELSE {})
GrowResults(f, l, dc, count) == GrowFrom(f, <<>>, 0, l, dc, count)

(***************************************************************************)
(* DoAutomaticVolumeGrow as an activation record: pc is "grow" before the  *)
(* call of AutomaticGrowByType, "bcast" inside the range loop (next index  *)
(* i), "ret" once it has returned.  sent lists the responses handed to     *)
(* broadcastToClients.                                                     *)
(***************************************************************************)
NewRun == [pc |-> "grow", locs |-> <<>>, i |-> 1, err |-> FALSE, sent |-> <<>>]
IdleRun == [pc |-> "ret", locs |-> <<>>, i |-> 1, err |-> FALSE, sent |-> <<>>]
KeepConnectedResponse(loc) == [VolumeLocation |-> loc]

\* lines 26-31: the result of the grow call; an error returns at once
AfterGrowIgnoresErr(run, res) ==
    [run EXCEPT !.locs = res.locs, !.err = res.err,
                !.pc = IF res.locs = <<>> THEN "ret" ELSE "bcast"]
AfterGrow(run, res) ==
    [run EXCEPT !.locs = res.locs, !.err = res.err,
                !.pc = IF res.err \/ res.locs = <<>> THEN "ret" ELSE "bcast"]

\* lines 32-34: one iteration of the range loop
BroadcastNextSkips(run) ==
    [run EXCEPT !.sent = Append(@, KeepConnectedResponse(run.locs[run.i])),
                !.i = @ + 2,
                !.pc = IF run.i + 2 > Len(run.locs) THEN "ret" ELSE "bcast"]
BroadcastNext(run) ==
    [run EXCEPT !.sent = Append(@, KeepConnectedResponse(run.locs[run.i])),
                !.i = @ + 1,
                !.pc = IF run.i + 1 > Len(run.locs) THEN "ret" ELSE "bcast"]

(***************************************************************************)
(* Initial state.                                                          *)
(***************************************************************************)
InitCtl ==
    /\ growRequest = [l \in Layouts |-> FALSE]
    /\ volumeGrowthRequestChan = <<>>
    /\ scanPc = "leader" /\ scanIdx = 1 /\ scanDc = 1 /\ scanReq = NoReq
    /\ scanLeaderless = FALSE
    /\ dispPc = "recv" /\ req = NoReq /\ found = FALSE
    /\ filter = EmptyBag
    /\ growing = EmptyBag
    /\ retired = {}

NoAssignRequest == [replication |-> "", ttl |-> "", dataCenter |-> "",
                    count |-> U32(0)]
NoOption == [layout |-> "", dc |-> ""]
InitRpcIdle ==
    /\ rpcPc = "idle" /\ rpcReq = NoAssignRequest
    /\ rpcOption = NoOption
    /\ rpcErr = "" /\ rpcRun = IdleRun /\ rpcRet = "none"
    /\ rpcFree0 = [d \in DataCenters |-> 0]

\* the other RPCs, LookupVolume and fs.verify before any call
VolumeLayoutKey(rp, ttl) == <<rp, ttl>>
NoStats == [UsedSize |-> 0, FileCount |-> 0]
NoCall == [method |-> ""]
NoResp == [nil |-> TRUE]
InitAdminIdle ==
    /\ isDisableVacuum = FALSE
    /\ vacuumCalls = {}
    /\ layoutIndex = [k \in {VolumeLayoutKey(<<0, 0, 0>>, "")} |-> NoStats]
    /\ readonly = {}
    /\ maxVolumeCount = 0
    /\ adminPc = "idle" /\ adminCall = NoCall /\ adminRet = "none"
    /\ adminResp = NoResp
InitLookupIdle ==
    /\ lookupPc = "idle" /\ lookupIds = <<>> /\ lookupAt = 1 /\ lookupResp = <<>>
    /\ lookupErr = "none"
InitVerifyIdle ==
    /\ verifyPc = "idle"
    /\ verifyArgs = [concurrency |-> 0, metadataFromLog |-> FALSE,
                     flagsParse |-> TRUE, urlParses |-> TRUE, collectErr |-> FALSE]
    /\ verifyRet = "none"
    /\ verifyTodo = <<>>
    /\ verifyChan = [s \in {"s1", "s2"} |-> 0]
    /\ verifyWg = 0
    /\ verifyRunning = [s \in {"s1", "s2"} |-> [verify |-> 0, recv |-> 0, done |-> 0]]
    /\ verifyClosed = {}
InitRecycleIdle ==
    /\ recyclePc = "idle"
    /\ recycleArgs = [force |-> FALSE, freeThreshold |-> 3, parses |-> TRUE,
                      locked |-> TRUE]
    /\ recycleTopo = <<>>
    /\ recycleIds = <<>> /\ recycleMap = <<>> /\ recycleAt = 1
    /\ recycleCalls = <<>> /\ recycleRet = "none"
InitStream == chanCap = ChanCap
InitPauseIdle == sleepRand = -1 /\ scanPause = 0
InitEntryIdle ==
    /\ entryPc = "idle" /\ entryArgs = [concurrency |-> 0]
    /\ entryTodo = <<>> /\ entryAt = 1 /\ entryGo = <<>>
    /\ itemIsVerifed = TRUE /\ errorCount = 0 /\ fileCount = 0
InitAcpIdle ==
    /\ policies = <<>> /\ acpMade = 0
    /\ acpCalls = <<>> /\ acpReturned = {}
InitWriteIdle == writePc = "idle" /\ writeReq = <<>> /\ writeRet = <<>>
InitOtherIdle ==
    /\ InitRecycleIdle /\ InitStream /\ InitPauseIdle /\ InitEntryIdle
    /\ InitAcpIdle /\ InitWriteIdle
InitRestIdle == InitAdminIdle /\ InitLookupIdle /\ InitVerifyIdle /\ InitOtherIdle

\* the controller starts with data center dc1 holding MaxFree free slots and
\* dc2 full
Init ==
    /\ isLeader \in BOOLEAN
    /\ free = [d \in DataCenters |-> IF d = DcList[1] THEN MaxFree ELSE 0]
    /\ InitCtl
    /\ InitRpcIdle
    /\ InitRestIdle

(***************************************************************************)
(* IsLeader() is an oracle: leadership is won and lost at any time.        *)
(***************************************************************************)
LeaderChange ==
    /\ isLeader' = ~isLeader
    /\ scanLeaderless' = (scanLeaderless /\ ~isLeader')
    /\ UNCHANGED <<growRequest, volumeGrowthRequestChan, scanPc, scanIdx, scanDc,
                   scanReq, dispVars, filter, growing, retired, topoVars, rpcVars, restVars>>

(***************************************************************************)
(* The scanner goroutine, lines 38-74.                                     *)
(***************************************************************************)
Live == (IF scanReq = NoReq THEN 0 ELSE 1) + Len(volumeGrowthRequestChan)
        + (IF req = NoReq THEN 0 ELSE 1) + BagCardinality(growing)
GetLastGrowCount(l) == U32(MaxCount)

\* lines 40-43
ScanLeaderCheckIgnoresLeader ==
    /\ scanPc = "leader"
    /\ scanPc' = "layout" /\ scanIdx' = 1
    /\ scanLeaderless' = ~isLeader
    /\ UNCHANGED <<isLeader, growRequest, volumeGrowthRequestChan, scanDc, scanReq,
                   dispVars, filter, growing, retired, topoVars, rpcVars, restVars>>
ScanLeaderCheck ==
    /\ scanPc = "leader"
    /\ IF ~isLeader
       THEN /\ scanLeaderless' = TRUE
            /\ UNCHANGED <<scanPc, scanIdx>>
       ELSE /\ scanLeaderless' = FALSE
            /\ scanPc' = "layout" /\ scanIdx' = 1
    /\ UNCHANGED <<isLeader, growRequest, volumeGrowthRequestChan, scanDc, scanReq,
                   dispVars, filter, growing, retired, topoVars, rpcVars, restVars>>

\* where the range loops of lines 44 and 57 go next: the following layout or
\* the sleep of line 72; the following data center or the following layout
AfterLayout(i) ==
    IF i + 1 > Len(LayoutList) THEN [pc |-> "sleep", idx |-> 1, dc |-> 1]
    ELSE [pc |-> "layout", idx |-> i + 1, dc |-> 1]
AfterDc(i, j) ==
    IF j + 1 > Len(DcList) THEN AfterLayout(i)
    ELSE [pc |-> "dc", idx |-> i, dc |-> j + 1]
ScanGoes(to) == scanPc' = to.pc /\ scanIdx' = to.idx /\ scanDc' = to.dc

\* lines 44-56: one layout of the range loop; the branch taken after
\* HasGrowRequest is what ShouldGrowVolumes answers
ScanLayout ==
    /\ scanPc = "layout"
    /\ LET l == LayoutList[scanIdx] IN
       IF HasGrowRequest(l)
       THEN /\ ScanGoes(AfterLayout(scanIdx))
            /\ UNCHANGED <<scanReq, growRequest>>
       ELSE \/ /\ Live < MaxReq
               /\ scanReq' = NewRequest(ToGrowOption(l), GetLastGrowCount(l), FALSE,
                                        "collection autogrow")
               /\ growRequest' = AddGrowRequest(growRequest, l)
               /\ scanPc' = "send"
               /\ UNCHANGED <<scanIdx, scanDc>>
            \/ /\ scanPc' = "dc" /\ scanDc' = 1
               /\ UNCHANGED <<scanIdx, scanReq, growRequest>>
    /\ UNCHANGED <<isLeader, volumeGrowthRequestChan, scanLeaderless, dispVars,
                   filter, growing, retired, topoVars, rpcVars, restVars>>

\* lines 51-55: the send blocks while the channel is full
ScanSendThenDcs ==
    /\ scanPc = "send"
    /\ Len(volumeGrowthRequestChan) < chanCap
    /\ volumeGrowthRequestChan' = Append(volumeGrowthRequestChan, scanReq)
    /\ scanReq' = NoReq
    /\ scanPc' = "dc" /\ scanDc' = 1 /\ UNCHANGED scanIdx
    /\ UNCHANGED <<isLeader, growRequest, scanLeaderless, dispVars, filter,
                   growing, retired, topoVars, rpcVars, restVars>>
ScanSendDrops ==
    /\ scanPc = "send"
    /\ volumeGrowthRequestChan' =
          IF Len(volumeGrowthRequestChan) < chanCap
          THEN Append(volumeGrowthRequestChan, scanReq)
          ELSE volumeGrowthRequestChan
    /\ scanReq' = NoReq
    /\ ScanGoes(AfterLayout(scanIdx))
    /\ UNCHANGED <<isLeader, growRequest, scanLeaderless, dispVars, filter,
                   growing, retired, topoVars, rpcVars, restVars>>
ScanSend ==
    /\ scanPc = "send"
    /\ Len(volumeGrowthRequestChan) < chanCap
    /\ volumeGrowthRequestChan' = Append(volumeGrowthRequestChan, scanReq)
    /\ scanReq' = NoReq
    /\ ScanGoes(AfterLayout(scanIdx))
    /\ UNCHANGED <<isLeader, growRequest, scanLeaderless, dispVars, filter,
                   growing, retired, topoVars, rpcVars, restVars>>

\* lines 57-61: one data center of the inner loop; the branch taken is what
\* ShouldGrowVolumesByDataNode answers
ScanDcUnforced ==
    /\ scanPc = "dc"
    /\ LET l == LayoutList[scanIdx] IN
       \/ /\ Live < MaxReq
          /\ LET volumeGrowOption == [ToGrowOption(l) EXCEPT !.dc = DcList[scanDc]]
             IN  scanReq' = NewRequest(volumeGrowOption, GetLastGrowCount(l), FALSE,
                                       "per-dc autogrow")
          /\ growRequest' = AddGrowRequest(growRequest, l)
          /\ scanPc' = "sendDc"
          /\ UNCHANGED <<scanIdx, scanDc>>
       \/ /\ ScanGoes(AfterDc(scanIdx, scanDc))
          /\ UNCHANGED <<scanReq, growRequest>>
    /\ UNCHANGED <<isLeader, volumeGrowthRequestChan, scanLeaderless, dispVars,
                   filter, growing, retired, topoVars, rpcVars, restVars>>
ScanDc ==
    /\ scanPc = "dc"
    /\ LET l == LayoutList[scanIdx] IN
       \/ /\ Live < MaxReq
          /\ LET volumeGrowOption == [ToGrowOption(l) EXCEPT !.dc = DcList[scanDc]]
             IN  scanReq' = NewRequest(volumeGrowOption, GetLastGrowCount(l), TRUE,
                                       "per-dc autogrow")
          /\ growRequest' = AddGrowRequest(growRequest, l)
          /\ scanPc' = "sendDc"
          /\ UNCHANGED <<scanIdx, scanDc>>
       \/ /\ ScanGoes(AfterDc(scanIdx, scanDc))
          /\ UNCHANGED <<scanReq, growRequest>>
    /\ UNCHANGED <<isLeader, volumeGrowthRequestChan, scanLeaderless, dispVars,
                   filter, growing, retired, topoVars, rpcVars, restVars>>

\* lines 62-67
ScanSendDc ==
    /\ scanPc = "sendDc"
    /\ Len(volumeGrowthRequestChan) < chanCap
    /\ volumeGrowthRequestChan' = Append(volumeGrowthRequestChan, scanReq)
    /\ scanReq' = NoReq
    /\ ScanGoes(AfterDc(scanIdx, scanDc))
    /\ UNCHANGED <<isLeader, growRequest, scanLeaderless, dispVars, filter,
                   growing, retired, topoVars, rpcVars, restVars>>

\* line 72
ScanSleep ==
    /\ scanPc = "sleep"
    /\ scanPc' = "leader"
    /\ UNCHANGED <<isLeader, growRequest, volumeGrowthRequestChan, scanIdx, scanDc,
                   scanReq, scanLeaderless, dispVars, filter, growing, retired,
                   topoVars, rpcVars, restVars>>

Scanner ==
    \/ ScanLeaderCheck
    \/ ScanLayout
    \/ ScanSend
    \/ ScanDc
    \/ ScanSendDc
    \/ ScanSleep

(***************************************************************************)
(* The dispatcher goroutine, lines 75-120.                                 *)
(***************************************************************************)
\* a request leaves the pipeline: its DoneGrowRequest calls are recorded
Retire(r) == retired \cup {r.dones}
CallDone(r) == [r EXCEPT !.dones = @ + 1]

\* lines 78-84: receive, and look the layout up
DispRecv ==
    /\ dispPc = "recv"
    /\ volumeGrowthRequestChan # <<>>
    /\ req' = Head(volumeGrowthRequestChan)
    /\ volumeGrowthRequestChan' = Tail(volumeGrowthRequestChan)
    /\ dispPc' = "leader"
    /\ UNCHANGED <<isLeader, growRequest, scanVars, found, filter, growing, retired,
                   topoVars, rpcVars, restVars>>

\* line 86
DispLeaderCheckIgnoresLeader ==
    /\ dispPc = "leader"
    /\ dispPc' = "range"
    /\ UNCHANGED <<isLeader, growRequest, volumeGrowthRequestChan, scanVars, req,
                   found, filter, growing, retired, topoVars, rpcVars, restVars>>
DispLeaderCheck ==
    /\ dispPc = "leader"
    /\ dispPc' = IF ~isLeader THEN "notLeader" ELSE "range"
    /\ UNCHANGED <<isLeader, growRequest, volumeGrowthRequestChan, scanVars, req,
                   found, filter, growing, retired, topoVars, rpcVars, restVars>>

\* lines 87-90: discard buffered requests
DispNotLeaderDoneForgets ==
    /\ dispPc = "notLeader"
    /\ retired' = Retire(req)
    /\ req' = NoReq
    /\ dispPc' = "recv"
    /\ UNCHANGED <<isLeader, growRequest, volumeGrowthRequestChan, scanVars, found,
                   filter, growing, topoVars, rpcVars, restVars>>
DispNotLeaderDone ==
    /\ dispPc = "notLeader"
    /\ growRequest' = DoneGrowRequest(growRequest, req.layout)
    /\ retired' = Retire(CallDone(req))
    /\ req' = NoReq
    /\ dispPc' = "recv"
    /\ UNCHANGED <<isLeader, volumeGrowthRequestChan, scanVars, found, filter,
                   growing, topoVars, rpcVars, restVars>>

\* lines 93-101: filter.Range
DispRange ==
    /\ dispPc = "range"
    /\ found' = (\E k \in BagToSet(filter) : Equals(k, req))
    /\ dispPc' = "decide"
    /\ UNCHANGED <<isLeader, growRequest, volumeGrowthRequestChan, scanVars, req,
                   filter, growing, retired, topoVars, rpcVars, restVars>>

\* lines 104-118: discard, or store the request and launch its growth;
\* shouldGrow is what ShouldGrowVolumes answers
Worker(r) == [req |-> r, run |-> NewRun, stage |-> "run"]
DiscardsForced(fnd, r, shouldGrow) == fnd \/ ~shouldGrow
DiscardsIgnoresFound(fnd, r, shouldGrow) == ~r.force /\ ~shouldGrow
Discards(fnd, r, shouldGrow) == fnd \/ (~r.force /\ ~shouldGrow)
DispDecideWaits ==
    /\ dispPc = "decide"
    /\ growing = EmptyBag
    /\ \E shouldGrow \in BOOLEAN :
         IF Discards(found, req, shouldGrow)
         THEN /\ dispPc' = "discard"
              /\ UNCHANGED <<req, found, filter, growing>>
         ELSE /\ filter' = filter (+) SetToBag({KeyOf(req)})
              /\ growing' = growing (+) SetToBag({Worker(req)})
              /\ req' = NoReq
              /\ found' = FALSE
              /\ dispPc' = "recv"
    /\ UNCHANGED <<isLeader, growRequest, volumeGrowthRequestChan, scanVars, retired,
                   topoVars, rpcVars, restVars>>
DispDecide ==
    /\ dispPc = "decide"
    /\ \E shouldGrow \in BOOLEAN :
         IF Discards(found, req, shouldGrow)
         THEN /\ dispPc' = "discard"
              /\ UNCHANGED <<req, found, filter, growing>>
         ELSE /\ filter' = filter (+) SetToBag({KeyOf(req)})
              /\ growing' = growing (+) SetToBag({Worker(req)})
              /\ req' = NoReq
              /\ found' = FALSE
              /\ dispPc' = "recv"
    /\ UNCHANGED <<isLeader, growRequest, volumeGrowthRequestChan, scanVars, retired,
                   topoVars, rpcVars, restVars>>

\* lines 105-108
DispDiscardDone ==
    /\ dispPc = "discard"
    /\ growRequest' = DoneGrowRequest(growRequest, req.layout)
    /\ retired' = Retire(CallDone(req))
    /\ req' = NoReq
    /\ found' = FALSE
    /\ dispPc' = "recv"
    /\ UNCHANGED <<isLeader, volumeGrowthRequestChan, scanVars, filter, growing,
                   topoVars, rpcVars, restVars>>

Dispatcher ==
    \/ DispRecv
    \/ DispLeaderCheck
    \/ DispNotLeaderDone
    \/ DispRange
    \/ DispDecide
    \/ DispDiscardDone

(***************************************************************************)
(* The growth goroutine of an accepted request, lines 114-118.             *)
(***************************************************************************)
Replace(w, v) == (growing (-) SetToBag({w})) (+) SetToBag({v})

\* line 115 -> line 26: the grow call returns
GrowCall(w) ==
    /\ w.stage = "run" /\ w.run.pc = "grow"
    /\ \E res \in GrowResults(free, w.req.layout, w.req.dc, w.req.count) :
         /\ growing' = Replace(w, [w EXCEPT !.run = AfterGrow(w.run, res)])
         /\ free' = res.free
    /\ UNCHANGED <<isLeader, growRequest, volumeGrowthRequestChan, scanVars, dispVars,
                   filter, retired, rpcVars, restVars>>

\* line 115 -> lines 32-34
GrowBroadcast(w) ==
    /\ w.stage = "run" /\ w.run.pc = "bcast"
    /\ growing' = Replace(w, [w EXCEPT !.run = BroadcastNext(w.run)])
    /\ UNCHANGED <<isLeader, growRequest, volumeGrowthRequestChan, scanVars, dispVars,
                   filter, retired, topoVars, rpcVars, restVars>>

\* line 116
GrowDoneRequeues(w) ==
    /\ w.stage = "run" /\ w.run.pc = "ret"
    /\ growRequest' = IF w.run.err THEN growRequest
                      ELSE DoneGrowRequest(growRequest, w.req.layout)
    /\ volumeGrowthRequestChan' =
          IF w.run.err /\ Len(volumeGrowthRequestChan) < chanCap
          THEN Append(volumeGrowthRequestChan, w.req)
          ELSE volumeGrowthRequestChan
    /\ growing' = Replace(w, [req |-> CallDone(w.req), run |-> IdleRun,
                              stage |-> "delete"])
    /\ UNCHANGED <<isLeader, scanVars, dispVars, filter, retired, topoVars,
                   rpcVars, restVars>>
GrowDoneTwice(w) ==
    /\ w.stage = "run" /\ w.run.pc = "ret"
    /\ growRequest' = DoneGrowRequest(growRequest, w.req.layout)
    /\ growing' = Replace(w, [req |-> CallDone(CallDone(w.req)), run |-> IdleRun,
                              stage |-> "delete"])
    /\ UNCHANGED <<isLeader, volumeGrowthRequestChan, scanVars, dispVars, filter,
                   retired, topoVars, rpcVars, restVars>>
GrowDone(w) ==
    /\ w.stage = "run" /\ w.run.pc = "ret"
    /\ growRequest' = DoneGrowRequest(growRequest, w.req.layout)
    /\ growing' = Replace(w, [req |-> CallDone(w.req), run |-> IdleRun,
                              stage |-> "delete"])
    /\ UNCHANGED <<isLeader, volumeGrowthRequestChan, scanVars, dispVars, filter,
                   retired, topoVars, rpcVars, restVars>>

\* line 117
GrowDeleteLeavesFilter(w) ==
    /\ w.stage = "delete"
    /\ growing' = growing (-) SetToBag({w})
    /\ retired' = Retire(w.req)
    /\ UNCHANGED <<isLeader, growRequest, volumeGrowthRequestChan, scanVars, dispVars,
                   filter, topoVars, rpcVars, restVars>>
GrowDelete(w) ==
    /\ w.stage = "delete"
    /\ filter' = filter (-) SetToBag({KeyOf(w.req)})
    /\ growing' = growing (-) SetToBag({w})
    /\ retired' = Retire(w.req)
    /\ UNCHANGED <<isLeader, growRequest, volumeGrowthRequestChan, scanVars, dispVars,
                   topoVars, rpcVars, restVars>>

Growth ==
    \E w \in BagToSet(growing) :
        \/ GrowCall(w)
        \/ GrowBroadcast(w)
        \/ GrowDone(w)
        \/ GrowDelete(w)

ProcessGrowRequest == Scanner \/ Dispatcher \/ Growth

Next ==
    \/ LeaderChange
    \/ ProcessGrowRequest

Spec == Init /\ [][Next]_vars

(***************************************************************************)
(* Scheduling: every goroutine that can take a step eventually takes one,  *)
(* and every call of AutomaticGrowByType returns.  A growth goroutine is   *)
(* named by the Option of its request.                                     *)
(***************************************************************************)
Options == {[layout |-> l, dc |-> d] : l \in Layouts, d \in DataCenters \cup {""}}
GrowthOf(o) ==
    \E w \in BagToSet(growing) :
        /\ w.req.layout = o.layout /\ w.req.dc = o.dc
        /\ (GrowCall(w) \/ GrowBroadcast(w) \/ GrowDone(w) \/ GrowDelete(w))
FairSpec ==
    /\ Spec
    /\ WF_vars(Scanner)
    /\ WF_vars(Dispatcher)
    /\ \A o \in Options : WF_vars(GrowthOf(o))

(***************************************************************************)
(* The request stream with any capacity.  On a channel of capacity zero a  *)
(* send (line 51 or 62) completes only together with the receive of line   *)
(* 78: the request passes from the scanner to the dispatcher in one step.  *)
(***************************************************************************)
\* lines 51-55 with line 78
ScanHandoff ==
    /\ chanCap = 0
    /\ scanPc = "send" /\ dispPc = "recv"
    /\ req' = scanReq
    /\ scanReq' = NoReq
    /\ dispPc' = "leader"
    /\ ScanGoes(AfterLayout(scanIdx))
    /\ UNCHANGED <<isLeader, growRequest, volumeGrowthRequestChan, scanLeaderless,
                   found, filter, growing, retired, topoVars, rpcVars, restVars>>

\* lines 62-67 with line 78
ScanHandoffDc ==
    /\ chanCap = 0
    /\ scanPc = "sendDc" /\ dispPc = "recv"
    /\ req' = scanReq
    /\ scanReq' = NoReq
    /\ dispPc' = "leader"
    /\ ScanGoes(AfterDc(scanIdx, scanDc))
    /\ UNCHANGED <<isLeader, growRequest, volumeGrowthRequestChan, scanLeaderless,
                   found, filter, growing, retired, topoVars, rpcVars, restVars>>

Handoff == ScanHandoff \/ ScanHandoffDc

InitAnyCapacity ==
    /\ isLeader \in BOOLEAN
    /\ free = [d \in DataCenters |-> IF d = DcList[1] THEN MaxFree ELSE 0]
    /\ InitCtl
    /\ InitRpcIdle
    /\ InitAdminIdle /\ InitLookupIdle /\ InitVerifyIdle /\ InitRecycleIdle
    /\ InitPauseIdle /\ InitEntryIdle /\ InitAcpIdle /\ InitWriteIdle
    /\ chanCap \in 0..ChanCap

NextAnyCapacity ==
    \/ LeaderChange
    \/ ProcessGrowRequest
    \/ Handoff

SpecAnyCapacity ==
    /\ InitAnyCapacity /\ [][NextAnyCapacity]_vars
    /\ WF_vars(Scanner \/ Handoff)
    /\ WF_vars(Dispatcher)
    /\ \A o \in Options : WF_vars(GrowthOf(o))

(***************************************************************************)
(* The sleep between two scans, line 72:                                   *)
(*   time.Sleep(14*time.Minute +                                           *)
(*              time.Duration(120*rand.Float32())*time.Second)             *)
(* rand.Float32 returns n / 2^24 for an integer n of 0 .. 2^24 - 1.  A     *)
(* float32 is written as its numerator over 2^24; times are in seconds.    *)
(***************************************************************************)
\* the values of n that bring 120 * n / 2^24 next to each whole second
Float32Numerators ==
    {n \in {(k * 2^21) \div 15 + d : k \in 0..120, d \in -1..1} :
        0 <= n /\ n < 2^24}

\* the spacing of the float32 values around p / 2^24, as a numerator
RECURSIVE Ulp(_)
Ulp(p) == IF p < 2^24 THEN 1 ELSE 2 * Ulp(p \div 2)
\* rounding to the nearest float32, ties to even
RoundToFloat32(p) ==
    LET u == Ulp(p)
        q == p \div u
        r == p % u
    IN  IF 2 * r < u THEN q * u
        ELSE IF 2 * r > u THEN (q + 1) * u
        ELSE IF q % 2 = 0 THEN q * u
        ELSE (q + 1) * u
\* time.Duration(120*rand.Float32()): the float32 product, truncated
JitterSeconds(n) == RoundToFloat32(120 * n) \div 2^24
SleepSecondsWide(n) == 14 * 60 + RoundToFloat32(240 * n) \div 2^24
SleepSeconds(n) == 14 * 60 + JitterSeconds(n)

pauseFrame == <<isLeader, ctlVars, topoVars, rpcVars, adminTopoVars, adminVars,
                lookupVars, verifyVars, recycleVars, streamVars, entryVars, acpVars,
                writeVars>>

\* line 72: rand.Float32() returns
ScanRand ==
    /\ scanPc = "sleep" /\ sleepRand = -1
    /\ sleepRand' \in Float32Numerators
    /\ UNCHANGED <<pauseFrame, scanPause>>

\* line 72: time.Sleep returns after the pause
ScanSleepFor ==
    /\ scanPc = "sleep" /\ sleepRand # -1 /\ scanPause = 0
    /\ scanPause' = SleepSeconds(sleepRand)
    /\ UNCHANGED <<pauseFrame, sleepRand>>

\* the scanner has finished a scan on the leader
InitPause ==
    /\ isLeader = TRUE
    /\ free = [d \in DataCenters |-> 0]
    /\ growRequest = [l \in Layouts |-> FALSE]
    /\ volumeGrowthRequestChan = <<>>
    /\ scanPc = "sleep" /\ scanIdx = 1 /\ scanDc = 1 /\ scanReq = NoReq
    /\ scanLeaderless = FALSE
    /\ dispPc = "recv" /\ req = NoReq /\ found = FALSE
    /\ filter = EmptyBag /\ growing = EmptyBag /\ retired = {}
    /\ InitRpcIdle
    /\ InitRestIdle

NextPause == ScanRand \/ ScanSleepFor

SpecPause == InitPause /\ [][NextPause]_vars

(***************************************************************************)
(* The VolumeGrow RPC, lines 290-335.                                      *)
(***************************************************************************)
DefaultReplicaPlacement == "000"
Replications == {"", "000", "001", "0x1"}
Ttls == {"", "3m", "3x"}
RequestedDataCenters == {"", "dc1", "dc2", "dc9"}
\* writableVolumeCount: small counts, and 2^31 and 2^32 - 1
WritableVolumeCounts ==
    {U32(0), U32(1), U32(2), [hi |-> 32768, lo |-> 0], [hi |-> 65535, lo |-> 65535]}
AssignRequests ==
    [replication : Replications, ttl : Ttls, dataCenter : RequestedDataCenters,
     count : WritableVolumeCounts]

\* NewReplicaPlacementFromString and ReadTTL, on the strings above
ReplicationParses(t) == t \in {"000", "001"}
LayoutOfReplication(t) == IF t = "000" THEN "a" ELSE "b"
TtlParses(t) == t \in {"", "3m"}

rpcFrame == <<isLeader, ctlVars, restVars>>

\* a call arrives, with a request of R
VolumeGrowCallWith(R) ==
    /\ rpcPc \in {"idle", "done"}
    /\ rpcReq' \in R
    /\ rpcPc' = "leader"
    /\ rpcOption' = NoOption /\ rpcErr' = "" /\ rpcRun' = IdleRun /\ rpcRet' = "none"
    /\ rpcFree0' = free
    /\ UNCHANGED <<rpcFrame, topoVars>>

\* lines 291-293
VolumeGrowLeaderCheck ==
    /\ rpcPc = "leader"
    /\ IF ~isLeader
       THEN rpcRet' = "NotLeader" /\ rpcPc' = "done"
       ELSE rpcRet' = rpcRet /\ rpcPc' = "parse"
    /\ UNCHANGED <<rpcFrame, topoVars, rpcReq, rpcOption, rpcErr, rpcRun, rpcFree0>>

\* lines 294-321
VolumeGrowParseIgnoresTtl ==
    /\ rpcPc = "parse"
    /\ LET replication == IF rpcReq.replication = "" THEN DefaultReplicaPlacement
                          ELSE rpcReq.replication
       IN  IF ~ReplicationParses(replication)
           THEN rpcRet' = "InvalidReplication" /\ rpcPc' = "done"
                /\ UNCHANGED rpcOption
           ELSE /\ rpcOption' = [layout |-> LayoutOfReplication(replication),
                                 dc |-> rpcReq.dataCenter]
                /\ rpcPc' = "preflight"
                /\ UNCHANGED rpcRet
    /\ UNCHANGED <<rpcFrame, topoVars, rpcReq, rpcErr, rpcRun, rpcFree0>>
VolumeGrowParse ==
    /\ rpcPc = "parse"
    /\ LET replication == IF rpcReq.replication = "" THEN DefaultReplicaPlacement
                          ELSE rpcReq.replication
       IN  IF ~ReplicationParses(replication)
           THEN rpcRet' = "InvalidReplication" /\ rpcPc' = "done"
                /\ UNCHANGED rpcOption
           ELSE IF ~TtlParses(rpcReq.ttl)
           THEN rpcRet' = "InvalidTTL" /\ rpcPc' = "done" /\ UNCHANGED rpcOption
           ELSE /\ rpcOption' = [layout |-> LayoutOfReplication(replication),
                                 dc |-> rpcReq.dataCenter]
                /\ rpcPc' = "preflight"
                /\ UNCHANGED rpcRet
    /\ UNCHANGED <<rpcFrame, topoVars, rpcReq, rpcErr, rpcRun, rpcFree0>>

\* lines 322-326: replicaCount is a uint32 product
ReplicaCount(count, l) == Mul32(count, CopyCountOf(l))
VolumeGrowPreflight ==
    /\ rpcPc = "preflight"
    /\ IF LessThanU32(AvailableSpaceFor(free, rpcOption.dc),
                      ReplicaCount(rpcReq.count, rpcOption.layout))
       THEN rpcRet' = "InsufficientCapacity" /\ rpcPc' = "done"
       ELSE rpcRet' = rpcRet /\ rpcPc' = "dc"
    /\ UNCHANGED <<rpcFrame, topoVars, rpcReq, rpcOption, rpcErr, rpcRun, rpcFree0>>

\* lines 328-332: err is assigned and never read; the growth starts
VolumeGrowDcCheck ==
    /\ rpcPc = "dc"
    /\ rpcErr' = IF ~DataCenterExists(rpcOption.dc) THEN "data center not found"
                 ELSE rpcErr
    /\ rpcRun' = NewRun
    /\ rpcPc' = "grow"
    /\ UNCHANGED <<rpcFrame, topoVars, rpcReq, rpcOption, rpcRet, rpcFree0>>

\* line 332 -> line 26
VolumeGrowGrowCall ==
    /\ rpcPc = "grow" /\ rpcRun.pc = "grow"
    /\ \E res \in GrowResults(free, rpcOption.layout, rpcOption.dc, rpcReq.count) :
         /\ rpcRun' = AfterGrow(rpcRun, res)
         /\ free' = res.free
    /\ UNCHANGED <<rpcFrame, rpcPc, rpcReq, rpcOption, rpcErr, rpcRet, rpcFree0>>

\* line 332 -> lines 32-34
VolumeGrowBroadcast ==
    /\ rpcPc = "grow" /\ rpcRun.pc = "bcast"
    /\ rpcRun' = BroadcastNext(rpcRun)
    /\ UNCHANGED <<rpcFrame, topoVars, rpcPc, rpcReq, rpcOption, rpcErr, rpcRet,
                   rpcFree0>>

\* line 334
VolumeGrowReturnDone ==
    /\ rpcPc = "grow" /\ rpcRun.pc = "ret"
    /\ rpcRet' = "ok"
    /\ rpcPc' = "done"
    /\ growRequest' = DoneGrowRequest(growRequest, rpcOption.layout)
    /\ UNCHANGED <<isLeader, volumeGrowthRequestChan, scanVars, dispVars, filter,
                   growing, retired, restVars, topoVars, rpcReq, rpcOption, rpcErr,
                   rpcRun, rpcFree0>>
VolumeGrowReturn ==
    /\ rpcPc = "grow" /\ rpcRun.pc = "ret"
    /\ rpcRet' = "ok"
    /\ rpcPc' = "done"
    /\ UNCHANGED <<rpcFrame, topoVars, rpcReq, rpcOption, rpcErr, rpcRun, rpcFree0>>

VolumeGrowCall == VolumeGrowCallWith(AssignRequests)
VolumeGrowSteps ==
    \/ VolumeGrowLeaderCheck
    \/ VolumeGrowParse
    \/ VolumeGrowPreflight
    \/ VolumeGrowDcCheck
    \/ VolumeGrowGrowCall
    \/ VolumeGrowBroadcast
    \/ VolumeGrowReturn
VolumeGrow ==
    \/ VolumeGrowCall
    \/ VolumeGrowSteps

\* the leader gains and loses leadership while the RPC runs
LeaderChangeRpc ==
    /\ isLeader' = ~isLeader
    /\ UNCHANGED <<ctlVars, topoVars, rpcVars, restVars>>

InitRpc ==
    /\ isLeader \in BOOLEAN
    /\ free \in [DataCenters -> 0..MaxFree]
    /\ InitCtl
    /\ InitRpcIdle
    /\ InitRestIdle

NextRpc ==
    \/ LeaderChangeRpc
    \/ VolumeGrow

SpecRpc == InitRpc /\ [][NextRpc]_vars

(***************************************************************************)
(* The other RPCs of the master, lines 160-288.  A client calls one RPC at *)
(* a time: adminCall is the call being served, adminRet its error and      *)
(* adminResp its response body (NoResp for nil).                           *)
(***************************************************************************)
VolumeSizeLimitMB == 30
MaxVolumeCounts == {0, 7}
\* Topo.Lookup: volume 3 has a replica on each of two data nodes, volume 4
\* one replica on the first of them
DataNode(ip, port) == [Ip |-> ip, Port |-> port]
DataNodesOf(vid) ==
    IF vid = 3 THEN {DataNode("ip1", 8080), DataNode("ip2", 8080)}
    ELSE IF vid = 4 THEN {DataNode("ip1", 8080)}
    ELSE {}
\* NewReplicaPlacementFromByte, on the bytes 0 and 1
ReplicaPlacementFromByte(b) == IF b = 0 THEN <<0, 0, 0>> ELSE <<0, 0, 1>>
\* Topo.LookupEcShards: volume 5 is erasure coded, on two shards
EcShardsOf(vid) == IF vid = 5 THEN {[ShardId |-> 0, Locations |-> {"n1"}],
                                    [ShardId |-> 1, Locations |-> {"n2"}]}
                   ELSE {}
\* GetVolumeLayout creates the layout when it does not exist
GetVolumeLayout(index, key) ==
    [k \in DOMAIN index \cup {key} |-> IF k \in DOMAIN index THEN index[k]
                                       ELSE NoStats]
\* line 180
TotalSizeInKB(n) == (n * VolumeSizeLimitMB) * 1024
TotalSize(n) == ((n * VolumeSizeLimitMB) * 1024) * 1024

\* the handlers that begin with the IsLeader() check
LeaderOnlyMethodsButVacuum ==
    {"Statistics", "VolumeList", "LookupEcVolume", "VolumeMarkReadonly"}
LeaderOnlyMethods ==
    {"Statistics", "VolumeList", "LookupEcVolume", "VacuumVolume",
     "VolumeMarkReadonly"}
AdminCalls ==
    [method : {"Statistics"}, replication : Replications, ttl : Ttls]
    \cup [method : {"VolumeList", "DisableVacuum", "EnableVacuum"}]
    \cup [method : {"LookupEcVolume"}, volumeId : {5, 9}]
    \cup [method : {"VacuumVolume"}, volumeId : {3}]
    \cup [method : {"VolumeMarkReadonly"}, volumeId : {3, 4}, ip : {"ip1"},
          port : {8080, 8081}, replicaPlacement : {0, 1}, isReadonly : BOOLEAN]

adminFrame == <<isLeader, ctlVars, topoVars, lookupVars, verifyVars, otherVars>>

\* a call arrives; the client has dropped the answer of its previous call
AdminCall ==
    /\ adminPc = "idle" /\ rpcPc \in {"idle", "done"}
    /\ adminCall' \in AdminCalls
    /\ adminPc' = "entry"
    /\ adminRet' = "none" /\ adminResp' = NoResp
    /\ rpcPc' = "idle" /\ rpcReq' = NoAssignRequest /\ rpcOption' = NoOption
    /\ rpcErr' = "" /\ rpcRun' = IdleRun /\ rpcRet' = "none"
    /\ rpcFree0' = [d \in DataCenters |-> 0]
    /\ UNCHANGED <<adminFrame, adminTopoVars>>

\* lines 162-164, 192-194, 206-208, 240-242, 267-269
AdminLeaderCheck ==
    /\ adminPc = "entry"
    /\ IF adminCall.method \in LeaderOnlyMethods /\ ~isLeader
       THEN adminRet' = "NotLeader" /\ adminPc' = "done"
       ELSE adminRet' = adminRet /\ adminPc' = "body"
    /\ UNCHANGED <<adminFrame, adminTopoVars, rpcVars, adminCall, adminResp>>

Serving(method) == adminPc = "body" /\ adminCall.method = method

\* lines 166-187
StatisticsResponse(index, key) ==
    [TotalSize |-> TotalSize(maxVolumeCount),
     UsedSize |-> index[key].UsedSize, FileCount |-> index[key].FileCount]
Statistics ==
    /\ Serving("Statistics")
    /\ LET replication == IF adminCall.replication = ""
                          THEN DefaultReplicaPlacement
                          ELSE adminCall.replication
       IN  IF ~ReplicationParses(replication)
           THEN adminRet' = "InvalidReplication" /\ UNCHANGED <<adminResp, layoutIndex>>
           ELSE IF ~TtlParses(adminCall.ttl)
           THEN adminRet' = "InvalidTTL" /\ UNCHANGED <<adminResp, layoutIndex>>
           ELSE LET key == VolumeLayoutKey(
                               ReplicaPlacementOf(LayoutOfReplication(replication)),
                               adminCall.ttl)
                    index == GetVolumeLayout(layoutIndex, key)
                IN  /\ layoutIndex' = index
                    /\ adminResp' = StatisticsResponse(index, key)
                    /\ adminRet' = "ok"
    /\ adminPc' = "done"
    /\ UNCHANGED <<adminFrame, rpcVars, adminCall, isDisableVacuum, vacuumCalls,
                   readonly, maxVolumeCount>>

\* lines 196-201
VolumeList ==
    /\ Serving("VolumeList")
    /\ adminResp' = [TopologyInfo |-> [free |-> free,
                                       maxVolumeCount |-> maxVolumeCount],
                     VolumeSizeLimitMb |-> VolumeSizeLimitMB]
    /\ adminRet' = "ok" /\ adminPc' = "done"
    /\ UNCHANGED <<adminFrame, adminTopoVars, rpcVars, adminCall>>

\* lines 210-235: an unknown volume returns the empty response and an error
LookupEcVolume ==
    /\ Serving("LookupEcVolume")
    /\ IF EcShardsOf(adminCall.volumeId) = {}
       THEN /\ adminResp' = [VolumeId |-> 0, ShardIdLocations |-> {}]
            /\ adminRet' = "NotFound"
       ELSE /\ adminResp' = [VolumeId |-> adminCall.volumeId,
                             ShardIdLocations |-> EcShardsOf(adminCall.volumeId)]
            /\ adminRet' = "ok"
    /\ adminPc' = "done"
    /\ UNCHANGED <<adminFrame, adminTopoVars, rpcVars, adminCall>>

\* lines 244-248
VacuumVolume ==
    /\ Serving("VacuumVolume")
    /\ vacuumCalls' = vacuumCalls \cup {adminCall.volumeId}
    /\ adminResp' = [message |-> "VacuumVolumeResponse"]
    /\ adminRet' = "ok" /\ adminPc' = "done"
    /\ UNCHANGED <<adminFrame, rpcVars, adminCall, isDisableVacuum, layoutIndex,
                   readonly, maxVolumeCount>>

\* lines 251-256
DisableVacuumOnLeader ==
    /\ Serving("DisableVacuum")
    /\ IF isLeader
       THEN isDisableVacuum' = TRUE /\ adminResp' = [message |-> "DisableVacuumResponse"]
            /\ adminRet' = "ok"
       ELSE UNCHANGED <<isDisableVacuum, adminResp>> /\ adminRet' = "NotLeader"
    /\ adminPc' = "done"
    /\ UNCHANGED <<adminFrame, rpcVars, adminCall, vacuumCalls, layoutIndex,
                   readonly, maxVolumeCount>>
DisableVacuum ==
    /\ Serving("DisableVacuum")
    /\ isDisableVacuum' = TRUE
    /\ adminResp' = [message |-> "DisableVacuumResponse"]
    /\ adminRet' = "ok" /\ adminPc' = "done"
    /\ UNCHANGED <<adminFrame, rpcVars, adminCall, vacuumCalls, layoutIndex,
                   readonly, maxVolumeCount>>

\* lines 258-263
EnableVacuum ==
    /\ Serving("EnableVacuum")
    /\ isDisableVacuum' = FALSE
    /\ adminResp' = [message |-> "EnableVacuumResponse"]
    /\ adminRet' = "ok" /\ adminPc' = "done"
    /\ UNCHANGED <<adminFrame, rpcVars, adminCall, vacuumCalls, layoutIndex,
                   readonly, maxVolumeCount>>

\* lines 271-287: the layout is fetched (and created) first; the data node
\* of the volume with the request's ip and port is marked
MatchesIpOnly(dn, call) == dn.Ip = call.ip
Matches(dn, call) == dn.Ip = call.ip /\ dn.Port = call.port
VolumeMarkReadonly ==
    /\ Serving("VolumeMarkReadonly")
    /\ layoutIndex' = GetVolumeLayout(
                         layoutIndex,
                         VolumeLayoutKey(
                             ReplicaPlacementFromByte(adminCall.replicaPlacement), ""))
    /\ LET marked == {<<adminCall.volumeId, dn>> :
                        dn \in {d \in DataNodesOf(adminCall.volumeId) :
                                  Matches(d, adminCall)}}
       IN  readonly' = IF adminCall.isReadonly THEN readonly \cup marked
                       ELSE readonly \ marked
    /\ adminResp' = [message |-> "VolumeMarkReadonlyResponse"]
    /\ adminRet' = "ok" /\ adminPc' = "done"
    /\ UNCHANGED <<adminFrame, rpcVars, adminCall, isDisableVacuum, vacuumCalls,
                   maxVolumeCount>>

\* the answer has been delivered
AdminReturn ==
    /\ adminPc = "done"
    /\ adminPc' = "idle" /\ adminCall' = NoCall /\ adminRet' = "none"
    /\ adminResp' = NoResp
    /\ UNCHANGED <<adminFrame, adminTopoVars, rpcVars>>

AdminRpc ==
    \/ AdminCall
    \/ AdminLeaderCheck
    \/ Statistics
    \/ VolumeList
    \/ LookupEcVolume
    \/ VacuumVolume
    \/ DisableVacuum
    \/ EnableVacuum
    \/ VolumeMarkReadonly
    \/ AdminReturn

\* the ad-hoc growth, called by the same client
AdHocRequests == [replication : {"", "0x1"}, ttl : {"", "3x"}, dataCenter : {""},
                  count : {U32(1)}]
MasterVolumeGrow ==
    \/ adminPc = "idle" /\ VolumeGrowCallWith(AdHocRequests)
    \/ VolumeGrowSteps

InitialLayoutIndexes ==
    {[k \in {VolumeLayoutKey(<<0, 0, 0>>, "")} |-> [UsedSize |-> 40, FileCount |-> 2]],
     [k \in {VolumeLayoutKey(<<0, 0, 0>>, ""), VolumeLayoutKey(<<0, 0, 1>>, "3m")} |->
        IF k[2] = "" THEN [UsedSize |-> 40, FileCount |-> 2]
        ELSE [UsedSize |-> 8, FileCount |-> 1]]}
\* the second replica of volume 3 is writable or read-only at start
InitialReadonly == {{}, {<<3, DataNode("ip2", 8080)>>}}
InitMaster ==
    /\ isLeader \in BOOLEAN
    /\ free = [d \in DataCenters |-> IF d = DcList[1] THEN MaxFree ELSE 0]
    /\ InitCtl
    /\ InitRpcIdle
    /\ InitLookupIdle /\ InitVerifyIdle /\ InitOtherIdle
    /\ isDisableVacuum = FALSE /\ vacuumCalls = {}
    /\ readonly \in InitialReadonly
    /\ layoutIndex \in InitialLayoutIndexes
    /\ maxVolumeCount \in MaxVolumeCounts
    /\ adminPc = "idle" /\ adminCall = NoCall /\ adminRet = "none"
    /\ adminResp = NoResp

NextMaster ==
    \/ LeaderChangeRpc
    \/ AdminRpc
    \/ MasterVolumeGrow

SpecMaster == InitMaster /\ [][NextMaster]_vars

(***************************************************************************)
(* LookupVolume, lines 123-158.  A string is the sequence of its           *)
(* characters.                                                             *)
(***************************************************************************)
Str3 == <<"3">>
Str7 == <<"7">>
VolumeOrFileIds ==
    {Str3, Str7, <<"9", "9">>, <<"7", ",", "a">>, <<"9", ",", "a">>,
     <<"3", ",">>, <<",", "3">>, <<>>}
\* the volumes the Topology knows, with their locations
KnownLocations == [v \in {Str3, Str7} |-> IF v = Str3 THEN <<"n1">>
                                          ELSE <<"n1", "n2">>]

\* strings.Index(s, ","): the 0-based index of the first comma, or -1
IndexOfComma(s) ==
    IF \E i \in 1..Len(s) : s[i] = ","
    THEN (CHOOSE i \in 1..Len(s) : s[i] = "," /\ \A j \in 1..(i - 1) : s[j] # ",") - 1
    ELSE -1
\* lines 129-133
VidOf(volumeOrFileId) ==
    LET commaSep == IndexOfComma(volumeOrFileId)
    IN  IF commaSep > 0 THEN SubSeq(volumeOrFileId, 1, commaSep) ELSE volumeOrFileId
\* lookupVolumeId: the results of the volume ids of the request that the
\* Topology knows, keyed by volume id
lookupVolumeId(ids) ==
    [vid \in {VidOf(ids[i]) : i \in 1..Len(ids)} \cap DOMAIN KnownLocations |->
        [VolumeOrFileId |-> vid, Locations |-> KnownLocations[vid], Error |-> <<>>]]
\* security.GenJwtForVolumeServer: a token signed for the file id
GenJwtForVolumeServer(fileId) == <<"jwt">> \o fileId
\* lines 144-147
AuthForAnyId(commaSep, result) == GenJwtForVolumeServer(result.VolumeOrFileId)
AuthFor(commaSep, result) ==
    IF commaSep > 0 THEN GenJwtForVolumeServer(result.VolumeOrFileId) ELSE <<>>
\* lines 135-143
LocationsFor(result) ==
    [k \in 1..Len(result.Locations) |-> [Url |-> result.Locations[k]]]
\* lines 134-154: the entry appended for one input, if any
EntriesForKeepUnknown(volumeOrFileId, volumeLocations) ==
    LET vid == VidOf(volumeOrFileId)
    IN  IF vid \in DOMAIN volumeLocations
        THEN <<[VolumeOrFileId |-> volumeLocations[vid].VolumeOrFileId,
                Locations |-> LocationsFor(volumeLocations[vid]),
                Error |-> volumeLocations[vid].Error,
                Auth |-> AuthFor(IndexOfComma(volumeOrFileId), volumeLocations[vid])]>>
        ELSE <<[VolumeOrFileId |-> vid, Locations |-> <<>>, Error |-> <<>>,
                Auth |-> <<>>]>>
EntriesFor(volumeOrFileId, volumeLocations) ==
    LET vid == VidOf(volumeOrFileId)
    IN  IF vid \in DOMAIN volumeLocations
        THEN <<[VolumeOrFileId |-> volumeLocations[vid].VolumeOrFileId,
                Locations |-> LocationsFor(volumeLocations[vid]),
                Error |-> volumeLocations[vid].Error,
                Auth |-> AuthFor(IndexOfComma(volumeOrFileId), volumeLocations[vid])]>>
        ELSE <<>>

lookupFrame == <<isLeader, ctlVars, topoVars, rpcVars, adminTopoVars, adminVars,
                 verifyVars, otherVars>>

\* lines 123-126: a call arrives with up to MaxIds ids
LookupVolumeCall ==
    /\ lookupPc = "idle"
    /\ \E n \in 0..MaxIds : lookupIds' \in [1..n -> VolumeOrFileIds]
    /\ lookupAt' = 1 /\ lookupResp' = <<>> /\ lookupErr' = "none"
    /\ lookupPc' = "range"
    /\ UNCHANGED lookupFrame

\* lines 128-155: one iteration of the range loop
LookupVolumeNext ==
    /\ lookupPc = "range" /\ lookupAt <= Len(lookupIds)
    /\ lookupResp' = lookupResp \o EntriesFor(lookupIds[lookupAt],
                                              lookupVolumeId(lookupIds))
    /\ lookupAt' = lookupAt + 1
    /\ UNCHANGED <<lookupFrame, lookupPc, lookupIds, lookupErr>>

\* line 157
LookupVolumeReturn ==
    /\ lookupPc = "range" /\ lookupAt > Len(lookupIds)
    /\ lookupErr' = "nil"
    /\ lookupPc' = "done"
    /\ UNCHANGED <<lookupFrame, lookupIds, lookupAt, lookupResp>>

LookupVolume ==
    \/ LookupVolumeCall
    \/ LookupVolumeNext
    \/ LookupVolumeReturn

InitLookup ==
    /\ isLeader \in BOOLEAN
    /\ free = [d \in DataCenters |-> IF d = DcList[1] THEN MaxFree ELSE 0]
    /\ InitCtl
    /\ InitRpcIdle
    /\ InitRestIdle

NextLookup ==
    \/ LeaderChangeRpc
    \/ LookupVolume

SpecLookup == InitLookup /\ [][NextLookup]_vars

(***************************************************************************)
(* The ad-hoc VolumeGrow called while the controller runs.                 *)
(***************************************************************************)
\* one call, arriving at any moment, with a request that passes the parsing
\* of lines 294-304 and so goes on to the growth
GrowingRequests == {r \in AdHocRequests : r.replication = "" /\ r.ttl = ""}
ConcurrentVolumeGrow ==
    \/ rpcPc = "idle" /\ VolumeGrowCallWith(GrowingRequests)
    \/ VolumeGrowSteps
NextConcurrent ==
    \/ Next
    \/ ConcurrentVolumeGrow

SpecConcurrent == Init /\ [][NextConcurrent]_vars

(***************************************************************************)
(* The controller on a leader that loses leadership, once and for good,    *)
(* while an accepted growth is running and the dispatcher waits at its     *)
(* receive: every growth that runs afterwards was running at the loss.     *)
(***************************************************************************)
LeaderLossMidGrowth ==
    /\ isLeader /\ dispPc = "recv"
    /\ \E w \in BagToSet(growing) : w.stage = "run"
    /\ isLeader' = FALSE
    /\ UNCHANGED <<growRequest, volumeGrowthRequestChan, scanVars, dispVars, filter,
                   growing, retired, topoVars, rpcVars, restVars>>

InitOnLeader ==
    /\ isLeader = TRUE
    /\ free = [d \in DataCenters |-> IF d = DcList[1] THEN MaxFree ELSE 0]
    /\ InitCtl
    /\ InitRpcIdle
    /\ InitRestIdle

NextLostMidGrowth ==
    \/ LeaderLossMidGrowth
    \/ ProcessGrowRequest

SpecLostMidGrowth == InitOnLeader /\ [][NextLostMidGrowth]_vars

(***************************************************************************)
(* fs.verify, command_fs_verify.go.  verifyTodo lists the volume server of *)
(* every (chunk, replica) pair that verifyEntry still has to verify, in    *)
(* order.  verifyChan counts the tokens in each server's waitChan and      *)
(* verifyRunning the goroutines of lines 204-215 per server: in            *)
(* verifyChunk, at the receive of line 214, and at the deferred wg.Done(). *)
(***************************************************************************)
VolumeServerList == <<"s1", "s2">>
VolumeServers == {VolumeServerList[i] : i \in 1..Len(VolumeServerList)}
NoTokens == [s \in VolumeServers |-> 0]
NoGoroutines == [s \in VolumeServers |-> [verify |-> 0, recv |-> 0, done |-> 0]]
\* the flags, and what the environment answers: whether the flags and the
\* path parse and whether collectTopologyInfo (line 107) returns an error
VerifyArgs == [concurrency : 0..MaxConcurrency, metadataFromLog : BOOLEAN,
               flagsParse : BOOLEAN, urlParses : BOOLEAN, collectErr : BOOLEAN]

verifyFrame == <<isLeader, ctlVars, topoVars, rpcVars, adminTopoVars, adminVars,
                 lookupVars, otherVars>>

\* lines 53-83: the command is run; the flags, the path and the topology
\* are read, each with its early return.  parseErr is the error of line 65
VerifyDo ==
    /\ verifyPc \in {"idle", "returned"}
    /\ verifyArgs' \in VerifyArgs
    /\ verifyChan' = NoTokens /\ verifyWg' = 0 /\ verifyRunning' = NoGoroutines
    /\ verifyClosed' = {}
    /\ LET parseErr == IF verifyArgs'.urlParses THEN "nil" ELSE "parse error"
       IN  IF ~verifyArgs'.flagsParse
           THEN verifyRet' = "flag error" /\ verifyPc' = "returned"
                /\ verifyTodo' = <<>>
           ELSE IF parseErr # "nil"
           THEN verifyRet' = parseErr /\ verifyPc' = "returned"
                /\ verifyTodo' = <<>>
           ELSE IF verifyArgs'.collectErr
           THEN verifyRet' = parseErr /\ verifyPc' = "returned"
                /\ verifyTodo' = <<>>
           ELSE /\ verifyRet' = "none"
                /\ \E n \in 0..MaxChunks : verifyTodo' \in [1..n -> VolumeServers]
                /\ verifyPc' = "make"
    /\ UNCHANGED verifyFrame

\* lines 85-91: one channel of capacity concurrency per volume server
VerifyMakeChannels ==
    /\ verifyPc = "make"
    /\ verifyPc' = "next"
    /\ UNCHANGED <<verifyFrame, verifyRet, verifyArgs, verifyTodo, verifyChan, verifyWg,
                   verifyRunning, verifyClosed>>

\* lines 176-179 and 190-202: the next pair; wg.Add(1) when concurrent
VerifyNext ==
    /\ verifyPc = "next"
    /\ IF verifyTodo = <<>>
       THEN verifyPc' = "wait" /\ UNCHANGED verifyWg
       ELSE IF verifyArgs.concurrency = 0
       THEN verifyPc' = "sync" /\ UNCHANGED verifyWg
       ELSE verifyPc' = "send" /\ verifyWg' = verifyWg + 1
    /\ UNCHANGED <<verifyFrame, verifyRet, verifyArgs, verifyTodo, verifyChan, verifyRunning,
                   verifyClosed>>

\* lines 180-188: the chunk is verified in place
VerifySyncChunk ==
    /\ verifyPc = "sync"
    /\ verifyTodo' = Tail(verifyTodo)
    /\ verifyPc' = "next"
    /\ UNCHANGED <<verifyFrame, verifyRet, verifyArgs, verifyChan, verifyWg, verifyRunning,
                   verifyClosed>>

\* line 203: blocks while the channel is full
VerifySend ==
    /\ verifyPc = "send"
    /\ verifyChan[Head(verifyTodo)] < verifyArgs.concurrency
    /\ verifyChan' = [verifyChan EXCEPT ![Head(verifyTodo)] = @ + 1]
    /\ verifyPc' = "go"
    /\ UNCHANGED <<verifyFrame, verifyRet, verifyArgs, verifyTodo, verifyWg, verifyRunning,
                   verifyClosed>>

\* line 204: the goroutine starts
VerifyGo ==
    /\ verifyPc = "go"
    /\ verifyRunning' = [verifyRunning EXCEPT ![Head(verifyTodo)].verify = @ + 1]
    /\ verifyTodo' = Tail(verifyTodo)
    /\ verifyPc' = "next"
    /\ UNCHANGED <<verifyFrame, verifyRet, verifyArgs, verifyChan, verifyWg, verifyClosed>>

\* lines 206-213: verifyChunk returns, with or without an error
VerifyChunkReturns(s) ==
    /\ verifyRunning[s].verify > 0
    /\ verifyRunning' = [verifyRunning EXCEPT ![s].verify = @ - 1, ![s].recv = @ + 1]
    /\ UNCHANGED <<verifyFrame, verifyRet, verifyPc, verifyArgs, verifyTodo, verifyChan,
                   verifyWg, verifyClosed>>

\* line 214: a token is taken back (a closed and empty channel does not block)
VerifyRelease(s) ==
    /\ verifyRunning[s].recv > 0
    /\ verifyChan[s] > 0 \/ s \in verifyClosed
    /\ verifyChan' = [verifyChan EXCEPT ![s] = IF @ > 0 THEN @ - 1 ELSE @]
    /\ verifyRunning' = [verifyRunning EXCEPT ![s].recv = @ - 1, ![s].done = @ + 1]
    /\ UNCHANGED <<verifyFrame, verifyRet, verifyPc, verifyArgs, verifyTodo, verifyWg,
                   verifyClosed>>

\* line 205: the deferred wg.Done() ends the goroutine
VerifyWgDone(s) ==
    /\ verifyRunning[s].done > 0
    /\ verifyRunning' = [verifyRunning EXCEPT ![s].done = @ - 1]
    /\ verifyWg' = verifyWg - 1
    /\ UNCHANGED <<verifyFrame, verifyRet, verifyPc, verifyArgs, verifyTodo, verifyChan,
                   verifyClosed>>

\* line 97, or line 266 when the metadata comes from the traversal: wg.Wait()
VerifyWaitSkipped ==
    /\ verifyPc = "wait"
    /\ verifyPc' = "print"
    /\ UNCHANGED <<verifyFrame, verifyRet, verifyArgs, verifyTodo, verifyChan, verifyWg,
                   verifyRunning, verifyClosed>>
VerifyWait ==
    /\ verifyPc = "wait"
    /\ verifyWg = 0
    /\ verifyPc' = "print"
    /\ UNCHANGED <<verifyFrame, verifyRet, verifyArgs, verifyTodo, verifyChan, verifyWg,
                   verifyRunning, verifyClosed>>

\* lines 102-103
VerifyReturn ==
    /\ verifyPc = "print"
    /\ verifyRet' \in {"nil", "traverse error"}
    /\ verifyPc' = "close"
    /\ UNCHANGED <<verifyFrame, verifyArgs, verifyTodo, verifyChan, verifyWg,
                   verifyRunning, verifyClosed>>

\* the deferred calls, last first: the close of line 89 for each server,
\* then the function of lines 74-79
VerifyClose ==
    /\ verifyPc = "close"
    /\ IF verifyArgs.concurrency > 0 /\ verifyClosed # VolumeServers
       THEN LET i == CHOOSE i \in 1..Len(VolumeServerList) :
                        /\ VolumeServerList[i] \notin verifyClosed
                        /\ \A j \in (i + 1)..Len(VolumeServerList) :
                              VolumeServerList[j] \in verifyClosed
            IN  /\ verifyClosed' = verifyClosed \cup {VolumeServerList[i]}
                /\ UNCHANGED verifyPc
       ELSE verifyPc' = "returned" /\ UNCHANGED verifyClosed
    /\ UNCHANGED <<verifyFrame, verifyRet, verifyArgs, verifyTodo, verifyChan, verifyWg,
                   verifyRunning>>

FsVerify ==
    \/ VerifyDo
    \/ VerifyMakeChannels
    \/ VerifyNext
    \/ VerifySyncChunk
    \/ VerifySend
    \/ VerifyGo
    \/ \E s \in VolumeServers : VerifyChunkReturns(s)
    \/ \E s \in VolumeServers : VerifyRelease(s)
    \/ \E s \in VolumeServers : VerifyWgDone(s)
    \/ VerifyWait
    \/ VerifyReturn
    \/ VerifyClose

InitVerify ==
    /\ isLeader = TRUE
    /\ free = [d \in DataCenters |-> 0]
    /\ InitCtl
    /\ InitRpcIdle
    /\ InitRestIdle

SpecVerify == InitVerify /\ [][FsVerify]_vars

(***************************************************************************)
(* verifyEntry, lines 173-229, for one entry of the traversal (lines       *)
(* 253-267).  entryTodo lists the (chunk, replica) pairs of the entry in   *)
(* the order of the loops of lines 176 and 178, each with its volume       *)
(* server and whether verifyChunk fails on it; a chunk whose volume id is  *)
(* not in c.volumeIds is a pair with no server.  entryGo holds the         *)
(* position of the goroutine of each pair.  The Load, the Store and the    *)
(* Add of lines 183-186, 196-199, 209-212 and 220-223 are separate atomic  *)
(* operations.                                                             *)
(***************************************************************************)
VolumeNotFound == [server |-> "", fails |-> TRUE]
Pairs == [server : VolumeServers, fails : BOOLEAN] \cup {VolumeNotFound}
EntryArgs == [concurrency : 0..MaxConcurrency]

entryFrame == <<isLeader, ctlVars, topoVars, rpcVars, adminTopoVars, adminVars,
                lookupVars, verifyVars, recycleVars, streamVars, pauseVars, acpVars,
                writeVars>>

\* the tokens in the waitChan of server s: one per goroutine that has not
\* reached the receive of line 214
Tokens(s) ==
    Cardinality({i \in 1..Len(entryTodo) :
                    entryTodo[i].server = s /\ entryGo[i] \notin {"none", "done"}})
\* the counter of the WaitGroup
WaitGroup == Cardinality({i \in 1..Len(entryTodo) : entryGo[i] \notin {"none", "done"}})

\* lines 256-259: the entry leaves outputChan and verifyEntry is called
VerifyEntryCall ==
    /\ entryPc = "idle"
    /\ entryArgs' \in EntryArgs
    /\ \E n \in 0..MaxChunks : entryTodo' \in [1..n -> Pairs]
    /\ entryGo' = [i \in 1..Len(entryTodo') |-> "none"]
    /\ entryAt' = 1
    /\ itemIsVerifed' = TRUE
    /\ entryPc' = "next"
    /\ UNCHANGED <<entryFrame, errorCount, fileCount>>

\* lines 176-181, 189-202 and 217-219: the next pair
EntryNext ==
    /\ entryPc = "next"
    /\ IF entryAt > Len(entryTodo) THEN entryPc' = "return"
       ELSE IF entryTodo[entryAt] = VolumeNotFound THEN entryPc' = "load"
       ELSE IF entryArgs.concurrency = 0
       THEN entryPc' = IF entryTodo[entryAt].fails THEN "load" ELSE "continue"
       ELSE entryPc' = "send"
    /\ UNCHANGED <<entryFrame, entryArgs, entryTodo, entryAt, entryGo, itemIsVerifed,
                   errorCount, fileCount>>

\* lines 183 and 220: itemIsVerifed.Load()
EntryLoad ==
    /\ entryPc = "load"
    /\ entryPc' = IF itemIsVerifed THEN "store"
                  ELSE IF entryTodo[entryAt] = VolumeNotFound THEN "return"
                  ELSE "continue"
    /\ UNCHANGED <<entryFrame, entryArgs, entryTodo, entryAt, entryGo, itemIsVerifed,
                   errorCount, fileCount>>

\* lines 184 and 221: itemIsVerifed.Store(false)
EntryStore ==
    /\ entryPc = "store"
    /\ itemIsVerifed' = FALSE
    /\ entryPc' = "add"
    /\ UNCHANGED <<entryFrame, entryArgs, entryTodo, entryAt, entryGo, errorCount,
                   fileCount>>

\* lines 185 and 222: errorCount.Add(1); line 224 breaks out of the loop
EntryAdd ==
    /\ entryPc = "add"
    /\ errorCount' = errorCount + 1
    /\ entryPc' = IF entryTodo[entryAt] = VolumeNotFound THEN "return" ELSE "continue"
    /\ UNCHANGED <<entryFrame, entryArgs, entryTodo, entryAt, entryGo, itemIsVerifed,
                   fileCount>>

\* line 188
EntryContinue ==
    /\ entryPc = "continue"
    /\ entryAt' = entryAt + 1
    /\ entryPc' = "next"
    /\ UNCHANGED <<entryFrame, entryArgs, entryTodo, entryGo, itemIsVerifed,
                   errorCount, fileCount>>

\* lines 202-204: wg.Add(1), the send that blocks while the server's channel
\* is full, and the go statement
EntryGo ==
    /\ entryPc = "send"
    /\ Tokens(entryTodo[entryAt].server) < entryArgs.concurrency
    /\ entryGo' = [entryGo EXCEPT ![entryAt] = "verify"]
    /\ entryAt' = entryAt + 1
    /\ entryPc' = "next"
    /\ UNCHANGED <<entryFrame, entryArgs, entryTodo, itemIsVerifed, errorCount,
                   fileCount>>

\* line 206: verifyChunk returns in the goroutine of pair i
GoVerifyChunk(i) ==
    /\ entryGo[i] = "verify"
    /\ entryGo' = [entryGo EXCEPT ![i] = IF entryTodo[i].fails THEN "load" ELSE "recv"]
    /\ UNCHANGED <<entryFrame, entryPc, entryArgs, entryTodo, entryAt, itemIsVerifed,
                   errorCount, fileCount>>

\* line 209
GoLoad(i) ==
    /\ entryGo[i] = "load"
    /\ entryGo' = [entryGo EXCEPT ![i] = IF itemIsVerifed THEN "store" ELSE "recv"]
    /\ UNCHANGED <<entryFrame, entryPc, entryArgs, entryTodo, entryAt, itemIsVerifed,
                   errorCount, fileCount>>

\* line 210
GoStore(i) ==
    /\ entryGo[i] = "store"
    /\ itemIsVerifed' = FALSE
    /\ entryGo' = [entryGo EXCEPT ![i] = "add"]
    /\ UNCHANGED <<entryFrame, entryPc, entryArgs, entryTodo, entryAt, errorCount,
                   fileCount>>

\* line 211
GoAdd(i) ==
    /\ entryGo[i] = "add"
    /\ errorCount' = errorCount + 1
    /\ entryGo' = [entryGo EXCEPT ![i] = "recv"]
    /\ UNCHANGED <<entryFrame, entryPc, entryArgs, entryTodo, entryAt, itemIsVerifed,
                   fileCount>>

\* lines 214 and 205: the token is taken back and wg.Done() runs
GoReturn(i) ==
    /\ entryGo[i] = "recv"
    /\ entryGo' = [entryGo EXCEPT ![i] = "done"]
    /\ UNCHANGED <<entryFrame, entryPc, entryArgs, entryTodo, entryAt, itemIsVerifed,
                   errorCount, fileCount>>

\* lines 228 and 259-264: verifyEntry returns itemIsVerifed.Load() and the
\* caller counts the file when it is true
VerifyEntryReturn ==
    /\ entryPc = "return"
    /\ fileCount' = IF itemIsVerifed THEN fileCount + 1 ELSE fileCount
    /\ entryPc' = "wait"
    /\ UNCHANGED <<entryFrame, entryArgs, entryTodo, entryAt, entryGo, itemIsVerifed,
                   errorCount>>

\* lines 266-267: wg.Wait(), then the error count is read
EntryWait ==
    /\ entryPc = "wait"
    /\ WaitGroup = 0
    /\ entryPc' = "done"
    /\ UNCHANGED <<entryFrame, entryArgs, entryTodo, entryAt, entryGo, itemIsVerifed,
                   errorCount, fileCount>>

VerifyEntry ==
    \/ VerifyEntryCall
    \/ EntryNext
    \/ EntryLoad
    \/ EntryStore
    \/ EntryAdd
    \/ EntryContinue
    \/ EntryGo
    \/ \E i \in 1..Len(entryTodo) : GoVerifyChunk(i)
    \/ \E i \in 1..Len(entryTodo) : GoLoad(i)
    \/ \E i \in 1..Len(entryTodo) : GoStore(i)
    \/ \E i \in 1..Len(entryTodo) : GoAdd(i)
    \/ \E i \in 1..Len(entryTodo) : GoReturn(i)
    \/ VerifyEntryReturn
    \/ EntryWait

InitEntry ==
    /\ isLeader = TRUE
    /\ free = [d \in DataCenters |-> 0]
    /\ InitCtl
    /\ InitRpcIdle
    /\ InitRestIdle

SpecEntry == InitEntry /\ [][VerifyEntry]_vars

(***************************************************************************)
(* volume.recycle, command_volume_recycle.go.  recycleTopo lists the       *)
(* volume replicas of the topology in the order the loops of lines 57-81   *)
(* visit them; recycleCalls lists the deleteVolume calls made.  The free   *)
(* threshold is counted in tenths.                                         *)
(***************************************************************************)
RecycleVolumeIds == {1, 2}
VolumeReplicas == [Id : RecycleVolumeIds, server : VolumeServers]
Topologies == UNION {[1..n -> VolumeReplicas] : n \in 0..MaxVolumes}
FreeThresholds == {0, 3, 10}
DiskStatuses == {[Free |-> 0, All |-> 0], [Free |-> 1, All |-> 10],
                 [Free |-> 3, All |-> 10], [Free |-> 10, All |-> 10]}
RecycleArgs == [force : BOOLEAN, freeThreshold : FreeThresholds,
                parses : BOOLEAN, locked : BOOLEAN]

\* lines 74-77: the ids in visiting order, and the server of each id (the
\* last replica visited wins)
VolumeIdsOf(topo) == [i \in 1..Len(topo) |-> topo[i].Id]
VolumeIdToVolumeMap(topo) ==
    [id \in {topo[i].Id : i \in 1..Len(topo)} |->
        topo[CHOOSE i \in 1..Len(topo) :
                /\ topo[i].Id = id
                /\ \A j \in (i + 1)..Len(topo) : topo[j].Id # id].server]
\* lines 83-88: sort.Slice, ascending
RECURSIVE SortIds(_)
SortIds(ids) ==
    IF ids = <<>> THEN <<>>
    ELSE LET m == CHOOSE i \in 1..Len(ids) : \A j \in 1..Len(ids) : ids[i] <= ids[j]
         IN  <<ids[m]>> \o SortIds(SubSeq(ids, 1, m - 1) \o SubSeq(ids, m + 1, Len(ids)))
\* lines 94-96: float64(Free) / float64(All) >= freeThreshold; 0/0 is NaN,
\* which compares false
FreeEnough(status, tenths) ==
    status.All > 0 /\ status.Free * 10 >= tenths * status.All

recycleFrame == <<isLeader, ctlVars, topoVars, rpcVars, adminTopoVars, adminVars,
                  lookupVars, verifyVars, streamVars, pauseVars, entryVars, acpVars,
                  writeVars>>

\* lines 35-45: the command is run; a flag error returns nil, an unlocked
\* shell returns the error
RecycleDo ==
    /\ recyclePc = "idle"
    /\ recycleArgs' \in RecycleArgs
    /\ recycleTopo' \in Topologies
    /\ IF ~recycleArgs'.parses THEN recyclePc' = "done" /\ recycleRet' = "nil"
       ELSE IF ~recycleArgs'.locked
       THEN recyclePc' = "done" /\ recycleRet' = "NotLocked"
       ELSE recyclePc' = "collect" /\ recycleRet' = "none"
    /\ UNCHANGED <<recycleFrame, recycleIds, recycleMap, recycleAt, recycleCalls>>

\* lines 48-88
RecycleCollect ==
    /\ recyclePc = "collect"
    /\ \/ /\ recyclePc' = "done" /\ recycleRet' = "TopologyError"
          /\ UNCHANGED <<recycleIds, recycleMap>>
       \/ /\ recycleIds' = SortIds(VolumeIdsOf(recycleTopo))
          /\ recycleMap' = VolumeIdToVolumeMap(recycleTopo)
          /\ recyclePc' = "disk"
          /\ UNCHANGED recycleRet
    /\ UNCHANGED <<recycleFrame, recycleArgs, recycleTopo, recycleAt, recycleCalls>>

\* lines 89-96
RecycleDisk ==
    /\ recyclePc = "disk"
    /\ \/ /\ recyclePc' = "done" /\ recycleRet' = "DiskStatusError"
       \/ \E status \in DiskStatuses :
             /\ recyclePc' = IF FreeEnough(status, recycleArgs.freeThreshold)
                             THEN "delete" ELSE "success"
             /\ UNCHANGED recycleRet
    /\ recycleAt' = 1
    /\ UNCHANGED <<recycleFrame, recycleArgs, recycleTopo, recycleIds, recycleMap,
                   recycleCalls>>

\* lines 97-106: one iteration of the range loop
RecycleDelete ==
    /\ recyclePc = "delete"
    /\ IF recycleAt > Len(recycleIds)
       THEN recyclePc' = "success" /\ UNCHANGED <<recycleAt, recycleCalls, recycleRet>>
       ELSE /\ recycleCalls' = Append(recycleCalls,
                                      <<recycleIds[recycleAt],
                                        recycleMap[recycleIds[recycleAt]]>>)
            /\ \/ recyclePc' = "done" /\ recycleRet' = "DeleteError"
                  /\ UNCHANGED recycleAt
               \/ recycleAt' = recycleAt + 1 /\ UNCHANGED <<recyclePc, recycleRet>>
    /\ UNCHANGED <<recycleFrame, recycleArgs, recycleTopo, recycleIds, recycleMap>>

\* lines 108-109
RecycleSuccess ==
    /\ recyclePc = "success"
    /\ recyclePc' = "done" /\ recycleRet' = "nil"
    /\ UNCHANGED <<recycleFrame, recycleArgs, recycleTopo, recycleIds, recycleMap,
                   recycleAt, recycleCalls>>

VolumeRecycle ==
    \/ RecycleDo
    \/ RecycleCollect
    \/ RecycleDisk
    \/ RecycleDelete
    \/ RecycleSuccess

InitRecycle ==
    /\ isLeader = TRUE
    /\ free = [d \in DataCenters |-> 0]
    /\ InitCtl
    /\ InitRpcIdle
    /\ InitRestIdle

SpecRecycle == InitRecycle /\ [][VolumeRecycle]_vars

(***************************************************************************)
(* BucketAccessControlPolicies.GetAccessControlPolicy, s3api_acp.go lines  *)
(* 159-173.  A policy object is named by the number of its allocation;     *)
(* policies maps a bucket to the object stored for it.  Each section under *)
(* the lock of bacp is one step.                                           *)
(***************************************************************************)
Buckets == {"b1", "b2"}
Callers == {"g1", "g2"}
NoPolicy == 0
IdleCall == [pc |-> "idle", bucket |-> "", acp |-> NoPolicy]

acpFrame == <<isLeader, ctlVars, topoVars, rpcVars, adminTopoVars, adminVars,
              lookupVars, verifyVars, recycleVars, streamVars, pauseVars, entryVars,
              writeVars>>

\* a caller asks for the policy of a bucket
GetAccessControlPolicyCall(g) ==
    /\ acpCalls[g].pc = "idle"
    /\ \E bucket \in Buckets :
          acpCalls' = [acpCalls EXCEPT ![g] = [pc |-> "read", bucket |-> bucket,
                                               acp |-> NoPolicy]]
    /\ UNCHANGED <<acpFrame, policies, acpMade, acpReturned>>

\* lines 160-163: the map is read under the read lock
AcpRead(g) ==
    /\ acpCalls[g].pc = "read"
    /\ LET bucket == acpCalls[g].bucket
           ok == bucket \in DOMAIN policies
       IN  acpCalls' = [acpCalls EXCEPT
                          ![g].acp = IF ok THEN policies[bucket] ELSE NoPolicy,
                          ![g].pc = IF ok THEN "return" ELSE "new"]
    /\ UNCHANGED <<acpFrame, policies, acpMade, acpReturned>>

\* lines 164-167: a new policy object is made
AcpNew(g) ==
    /\ acpCalls[g].pc = "new"
    /\ acpMade < MaxPolicies
    /\ acpMade' = acpMade + 1
    /\ acpCalls' = [acpCalls EXCEPT ![g].acp = acpMade + 1, ![g].pc = "store"]
    /\ UNCHANGED <<acpFrame, policies, acpReturned>>

\* lines 168-170: the object is stored under the write lock
AcpStore(g) ==
    /\ acpCalls[g].pc = "store"
    /\ LET bucket == acpCalls[g].bucket
       IN  policies' = [b \in DOMAIN policies \cup {bucket} |->
                           IF b = bucket THEN acpCalls[g].acp ELSE policies[b]]
    /\ acpCalls' = [acpCalls EXCEPT ![g].pc = "return"]
    /\ UNCHANGED <<acpFrame, acpMade, acpReturned>>

\* line 172: acpReturned records what each call has returned
AcpReturn(g) ==
    /\ acpCalls[g].pc = "return"
    /\ acpReturned' = acpReturned \cup {<<acpCalls[g].bucket, acpCalls[g].acp>>}
    /\ acpCalls' = [acpCalls EXCEPT ![g] = IdleCall]
    /\ UNCHANGED <<acpFrame, policies, acpMade>>

GetAccessControlPolicy ==
    \E g \in Callers :
        \/ GetAccessControlPolicyCall(g)
        \/ AcpRead(g)
        \/ AcpNew(g)
        \/ AcpStore(g)
        \/ AcpReturn(g)

\* NewBucketAccessControlPolicies (lines 36-42): an empty map
InitAcp ==
    /\ isLeader = TRUE
    /\ free = [d \in DataCenters |-> 0]
    /\ InitCtl
    /\ InitRpcIdle
    /\ InitAdminIdle /\ InitLookupIdle /\ InitVerifyIdle
    /\ InitRecycleIdle /\ InitStream /\ InitPauseIdle /\ InitEntryIdle
    /\ InitWriteIdle
    /\ policies = <<>> /\ acpMade = 0
    /\ acpCalls = [g \in Callers |-> IdleCall]
    /\ acpReturned = {}

SpecAcp == InitAcp /\ [][GetAccessControlPolicy]_vars

(***************************************************************************)
(* S3ApiServer.checkAccessForWriteObject, s3api_acp.go lines 505-551.  A   *)
(* request is what the function reads: the bucket's metadata (or the error *)
(* of GetBucketMetadata), the requester, what ExtractObjectAcl returns,    *)
(* and what getObjectEntry returns.  The bucket's Acl is the set of        *)
(* accounts it grants the WRITE permission to.                             *)
(***************************************************************************)
Accounts == {"admin", "alice", "bob"}
ObjectOwnerships == {"BucketOwnerEnforced", "BucketOwnerPreferred", "ObjectWriter"}
\* the object is missing, cannot be read, or exists with the owner its
\* Extended attributes record ("" when they record none)
ObjectEntries ==
    {[err |-> "ErrNotFound", owner |-> ""], [err |-> "other", owner |-> ""]}
    \cup [err : {"nil"}, owner : Accounts \cup {""}]
WriteRequests ==
    [bucketErr : {"ErrNone", "ErrNoSuchBucket"},
     ObjectOwnership : ObjectOwnerships,
     bucketOwner : {"admin"},
     Acl : {{}, {"alice"}},
     requestAccountId : Accounts,
     extractErr : {"ErrNone", "ErrInvalidRequest"},
     requestOwnerId : Accounts \cup {""},
     entry : ObjectEntries]

\* ValidateAccount: the account is one of the allowed accounts
ValidateAccount(requestAccountId, allowedAccounts) ==
    requestAccountId \in allowedAccounts
\* lines 553-570, with the required grants matched against the bucket's Acl
CheckBucketAccess(requestAccountId, r) ==
    \/ ValidateAccount(requestAccountId, {r.bucketOwner})
    \/ requestAccountId \in r.Acl
\* GetAcpOwner: the owner the entry records, the bucket owner by default
GetAcpOwner(entry, defaultOwner) ==
    IF entry.owner = "" THEN defaultOwner ELSE entry.owner
NoHeader == ""
Answer(code, owner) == [code |-> code, AcpOwnerHeader |-> owner]

\* lines 505-551: the error code returned and the owner header set on the
\* request
checkAccessForWriteObject(r) ==
    IF r.bucketErr # "ErrNone" THEN Answer(r.bucketErr, NoHeader)
    ELSE IF r.extractErr # "ErrNone" THEN Answer(r.extractErr, NoHeader)
    ELSE IF r.ObjectOwnership = "BucketOwnerEnforced" THEN Answer("ErrNone", NoHeader)
    ELSE IF ~CheckBucketAccess(r.requestAccountId, r)
    THEN Answer("ErrAccessDenied", NoHeader)
    ELSE LET requestOwnerId == IF r.requestOwnerId = "" THEN r.requestAccountId
                               ELSE r.requestOwnerId
         IN  IF r.entry.err = "ErrNotFound" THEN Answer("ErrNone", requestOwnerId)
             ELSE IF r.entry.err # "nil" THEN Answer("ErrInternalError", NoHeader)
             ELSE LET objectOwnerId == GetAcpOwner(r.entry, r.bucketOwner)
                  IN  IF requestOwnerId # "" /\ objectOwnerId # requestOwnerId
                      THEN Answer("ErrAccessDenied", NoHeader)
                      ELSE IF ValidateAccount(requestOwnerId,
                                              {objectOwnerId, r.bucketOwner})
                      THEN Answer("ErrAccessDenied", NoHeader)
                      ELSE Answer("ErrNone", objectOwnerId)

writeFrame == <<isLeader, ctlVars, topoVars, rpcVars, adminTopoVars, adminVars,
                lookupVars, verifyVars, recycleVars, streamVars, pauseVars, entryVars,
                acpVars>>

\* a write request arrives
WriteObjectCall ==
    /\ writePc = "idle"
    /\ writeReq' \in WriteRequests
    /\ writePc' = "check"
    /\ UNCHANGED <<writeFrame, writeRet>>

\* the handler runs the check
WriteObjectCheck ==
    /\ writePc = "check"
    /\ writeRet' = checkAccessForWriteObject(writeReq)
    /\ writePc' = "done"
    /\ UNCHANGED <<writeFrame, writeReq>>

InitWrite ==
    /\ isLeader = TRUE
    /\ free = [d \in DataCenters |-> 0]
    /\ InitCtl
    /\ InitRpcIdle
    /\ InitRestIdle

NextWrite == WriteObjectCall \/ WriteObjectCheck

SpecWrite == InitWrite /\ [][NextWrite]_vars

(***************************************************************************)
(* Properties of the growth controller.                                    *)
(***************************************************************************)
ChanRequests == {volumeGrowthRequestChan[i] : i \in 1..Len(volumeGrowthRequestChan)}
Workers == BagToSet(growing)
ResponsesFor(locs, n) == [k \in 1..n |-> KeepConnectedResponse(locs[k])]

\* C1: DoneGrowRequest is called exactly once for every published request:
\* a request that has left the pipeline (discarded for lost leadership, as a
\* duplicate or as no longer needed, or grown with success or failure) has
\* had one call, a request still queued, examined or growing has had none,
\* and an accepted request whose goroutine is past line 116 has had one.
DoneCalledExactlyOnce ==
    /\ retired \subseteq {1}
    /\ scanReq.dones = 0
    /\ req.dones = 0
    /\ \A r \in ChanRequests : r.dones = 0
    /\ \A w \in Workers : w.req.dones = IF w.stage = "delete" THEN 1 ELSE 0
\* a request has been discarded or has finished, and an accepted one has
\* just called DoneGrowRequest
DoneCalledWitness ==
    /\ 1 \in retired
    /\ \E w \in Workers : w.stage = "delete"

\* C2: at most one accepted growth (launched, DoAutomaticVolumeGrow not yet
\* returned and released) exists per volume layout.
AtMostOneAcceptedPerLayout ==
    \A w \in Workers :
        w.stage = "run" =>
            /\ CopiesIn(w, growing) = 1
            /\ \A v \in Workers :
                 (v.stage = "run" /\ v.req.layout = w.req.layout) => v = w

\* C3: the in-flight set never holds two requests with equal Options, and a
\* request for which the dispatcher's scan of the in-flight set meets an
\* equal request is discarded: the scan sets found, the decision goes to the
\* discard branch without storing the request or launching a growth, and
\* the discard calls DoneGrowRequest and leaves the in-flight set alone.
NoEqualInFlight ==
    \A k \in BagToSet(filter) :
        /\ CopiesIn(k, filter) = 1
        /\ \A h \in BagToSet(filter) : Equals(k, h) => k = h
DuplicateStep ==
    /\ (dispPc = "range" /\ dispPc' = "decide"
        /\ \E k \in BagToSet(filter) : Equals(k, req)) => found'
    /\ (dispPc = "decide" /\ found /\ dispPc' # "decide") =>
          (dispPc' = "discard" /\ req' = req /\ filter' = filter
           /\ growing' = growing)
    /\ (dispPc = "discard" /\ dispPc' # "discard") =>
          (/\ ~growRequest'[req.layout]
           /\ retired' = retired \cup {req.dones + 1}
           /\ filter' = filter /\ growing' = growing)
\* C3: no two equal requests are in flight, and a duplicate is discarded
DuplicateIsDiscarded == []NoEqualInFlight /\ [][DuplicateStep]_vars
\* the dispatcher is discarding a request whose equal is still in flight
DuplicateWitness ==
    /\ dispPc = "discard" /\ found
    /\ \E k \in BagToSet(filter) : Equals(k, req)

\* C4: while a layout's guard is set exactly one request of the layout is
\* outstanding (AddGrowRequest called, DoneGrowRequest not yet), and never
\* are two requests of one layout outstanding.
OutstandingOf(l) ==
    (IF scanReq.layout = l THEN 1 ELSE 0)
    + Cardinality({i \in 1..Len(volumeGrowthRequestChan) :
                     volumeGrowthRequestChan[i].layout = l})
    + (IF req.layout = l THEN 1 ELSE 0)
    + BagCardinality([w \in {v \in Workers : v.stage = "run" /\ v.req.layout = l}
                        |-> CopiesIn(w, growing)])
\* C4: a set guard means exactly one outstanding request of the layout
GuardMeansOneOutstanding ==
    \A l \in Layouts :
        /\ OutstandingOf(l) <= 1
        /\ growRequest[l] => OutstandingOf(l) = 1

\* C5: while IsLeader() has been false since the scan iteration began, no
\* step publishes a request, sets a guard or creates a request, and the
\* scanner's steps leave the Topology alone.
LeaderlessStep ==
    (scanLeaderless /\ scanLeaderless') =>
        /\ Len(volumeGrowthRequestChan') <= Len(volumeGrowthRequestChan)
        /\ \A l \in Layouts : growRequest'[l] => growRequest[l]
        /\ scanReq' = scanReq
        /\ scanPc' = "leader"
        /\ (<<scanPc, scanIdx, scanDc>>' # <<scanPc, scanIdx, scanDc>>
              => free' = free)
\* C5: a scan iteration without leadership publishes and sets nothing
LeaderlessScanPublishesNothing == [][LeaderlessStep]_vars
\* the scanner found no leader while a layout was free to be grown
LeaderlessWitness ==
    /\ scanLeaderless /\ ~isLeader
    /\ \E l \in Layouts : ~growRequest[l]
    /\ Live < MaxReq

\* C6: a request the dispatcher examines while IsLeader() is false takes the
\* discard branch of line 86: DoneGrowRequest is called on its layout, and
\* neither step stores it in the in-flight set, launches a growth or
\* changes the Topology.
NotLeaderStep ==
    /\ (dispPc = "leader" /\ ~isLeader /\ dispPc' # "leader") =>
          (dispPc' = "notLeader" /\ req' = req /\ filter' = filter
           /\ growing' = growing /\ free' = free)
    /\ (dispPc = "notLeader" /\ dispPc' # "notLeader") =>
          (/\ dispPc' = "recv"
           /\ ~growRequest'[req.layout]
           /\ retired' = retired \cup {req.dones + 1}
           /\ filter' = filter /\ growing' = growing /\ free' = free)
\* C6: a request examined without leadership is discarded with DoneGrowRequest
NotLeaderDiscards == [][NotLeaderStep]_vars
\* a request is being discarded for lost leadership, with another one queued
NotLeaderWitness ==
    /\ dispPc = "notLeader" /\ ~isLeader
    /\ volumeGrowthRequestChan # <<>>

\* C7: under fair scheduling, with every grow call returning, a layout whose
\* guard is set always comes back to idle.
GuardReturnsToIdle == \A l \in Layouts : growRequest[l] ~> ~growRequest[l]
\* an accepted growth has released the guard of its layout
GuardIdleWitness ==
    \E w \in Workers : w.stage = "delete" /\ ~growRequest[w.req.layout]

\* C8: a growth that returned the locations L without error broadcasts one
\* KeepConnectedResponse per element of L, in the order of L: inside the
\* loop the responses sent are those of the first i-1 locations, after the
\* loop those of all of L.
RunsOfGrowth == {w.run : w \in {v \in Workers : v.stage = "run"}} \cup {rpcRun}
\* C8: the responses broadcast are those of the returned locations, in order
BroadcastsFollowLocations ==
    \A run \in RunsOfGrowth :
        /\ run.pc = "bcast" =>
              /\ run.i \in 1..Len(run.locs)
              /\ run.sent = ResponsesFor(run.locs, run.i - 1)
        /\ (run.pc = "ret" /\ ~run.err) =>
              run.sent = ResponsesFor(run.locs, Len(run.locs))
\* a growth of two locations has been broadcast in full
BroadcastWitness ==
    \E w \in Workers :
        /\ w.stage = "run" /\ w.run.pc = "ret" /\ ~w.run.err
        /\ Len(w.run.locs) = 2 /\ Len(w.run.sent) = 2

(***************************************************************************)
(* Properties of the VolumeGrow RPC.                                       *)
(***************************************************************************)
\* n < u * c over the integers (no wrap), for n below one limb and c >= 1
MathLessThanProduct(n, u, c) == u.hi > 0 \/ n < u.lo * c

\* C9: a VolumeGrow call whose option has fewer free slots than
\* writableVolumeCount times the copy count returns an error, changes no
\* Topology state and broadcasts nothing.
ShortCapacityIsRejected ==
    (/\ rpcPc = "done" /\ rpcOption # NoOption
     /\ MathLessThanProduct(AvailableSpaceFor(rpcFree0, rpcOption.dc),
                            rpcReq.count, CopyCountOf(rpcOption.layout)))
    => (rpcRet # "ok" /\ rpcRun = IdleRun /\ free = rpcFree0)

\* C10: a VolumeGrow call naming a data center the Topology does not have
\* returns an error and performs no growth.
UnknownDataCenterIsRejected ==
    (rpcPc = "done" /\ rpcOption # NoOption /\ ~DataCenterExists(rpcOption.dc))
    => (rpcRet # "ok" /\ rpcRun = IdleRun /\ free = rpcFree0)

(***************************************************************************)
(* Properties of the RPCs of the master.                                   *)
(***************************************************************************)
ctlState == <<growRequest, volumeGrowthRequestChan, filter, growing>>

\* C11: each of Statistics, VolumeList, LookupEcVolume, VacuumVolume,
\* VolumeMarkReadonly and VolumeGrow, finding IsLeader() false, returns the
\* NotLeader error with a nil response, and that step creates no layout,
\* marks no volume, starts no vacuum or growth and leaves the Topology as
\* it was.
NotLeaderReturnStep ==
    /\ (/\ adminPc = "entry" /\ adminPc' # "entry" /\ ~isLeader
        /\ adminCall.method \in {"Statistics", "VolumeList", "LookupEcVolume",
                                 "VacuumVolume", "VolumeMarkReadonly"})
         => (/\ adminPc' = "done" /\ adminRet' = "NotLeader" /\ adminResp' = NoResp
             /\ UNCHANGED <<adminTopoVars, topoVars, ctlState>>)
    /\ (rpcPc = "leader" /\ rpcPc' # "leader" /\ ~isLeader)
         => (/\ rpcPc' = "done" /\ rpcRet' = "NotLeader"
             /\ rpcRun' = IdleRun /\ rpcOption' = NoOption
             /\ UNCHANGED <<adminTopoVars, topoVars, ctlState>>)
LeaderOnlyRpcsRejectOffLeader == [][NotLeaderReturnStep]_vars
\* VacuumVolume has been refused off the leader, with volumes marked before
NotLeaderReturnWitness ==
    /\ adminPc = "done" /\ adminRet = "NotLeader"
    /\ adminCall.method = "VacuumVolume"
    /\ readonly # {}

\* the part of an id before its first comma, and the two shapes of an id
BeforeComma(x) ==
    SubSeq(x, 1, Cardinality({i \in 1..Len(x) : \A j \in 1..i : x[j] # ","}))
IsKnownId(x) == BeforeComma(x) \in DOMAIN KnownLocations
IsBareVolumeId(x) == \A i \in 1..Len(x) : x[i] # ","
IsFullFileId(x) == Len(BeforeComma(x)) > 0 /\ Len(x) > Len(BeforeComma(x)) + 1

\* C12: LookupVolume returns one entry per input whose volume id is known,
\* in input order, with that volume's id and locations and no error field;
\* inputs with an unknown volume id produce no entry, and the call returns
\* a nil error.
LookupReturnsKnownInOrder ==
    lookupPc = "done" =>
        LET known == SelectSeq(lookupIds, IsKnownId)
        IN  /\ lookupErr = "nil"
            /\ Len(lookupResp) = Len(known)
            /\ \A k \in 1..Len(known) :
                  /\ lookupResp[k].VolumeOrFileId = BeforeComma(known[k])
                  /\ lookupResp[k].Error = <<>>
                  /\ lookupResp[k].Locations =
                       [n \in 1..Len(KnownLocations[BeforeComma(known[k])]) |->
                           [Url |-> KnownLocations[BeforeComma(known[k])][n]]]
\* scenario S6: a known volume id, a known file id and an unknown volume id
LookupWitness ==
    /\ lookupPc = "done"
    /\ lookupIds = <<Str3, <<"7", ",", "a">>, <<"9", "9">>>>
    /\ Len(lookupResp) = 2

VolumeGrowFrameStep == (rpcVars' # rpcVars) => UNCHANGED ctlVars
VolumeGrowLeavesGuardAlone == [][VolumeGrowFrameStep]_vars
\* both growths of the layout have created their volume and are broadcasting
ConcurrentGrowWitness ==
    /\ rpcPc = "grow" /\ rpcRun.pc = "bcast"
    /\ growRequest[rpcOption.layout]
    /\ \E w \in Workers :
          /\ w.req.layout = rpcOption.layout
          /\ w.stage = "run" /\ w.run.pc = "bcast"

\* C15: a VolumeGrow call whose growth failed after the preflight passed
\* returns an error.
GrowthFailureIsSurfaced ==
    (rpcPc = "done" /\ rpcRun.err) => rpcRet # "ok"

\* C16: a failed automatic growth is not retried: the step that ends it
\* releases the guard and publishes nothing, the next one takes its request
\* out of the in-flight set, a request enters the stream only by a send of
\* the scanner and a growth starts only for the request the dispatcher has
\* taken from the stream.
NoRetryStep ==
    /\ \A w \in Workers :
          (w.run.err /\ CopiesIn(w, growing') < CopiesIn(w, growing)) =>
              /\ ~growRequest'[w.req.layout]
              /\ growing' = Replace(w, [req |-> CallDone(w.req), run |-> IdleRun,
                                        stage |-> "delete"])
              /\ filter' = filter
              /\ volumeGrowthRequestChan' = volumeGrowthRequestChan
    /\ \A w \in Workers :
          (w.stage = "delete" /\ CopiesIn(w, growing') < CopiesIn(w, growing)) =>
              /\ growing' = growing (-) SetToBag({w})
              /\ filter' = filter (-) SetToBag({KeyOf(w.req)})
              /\ volumeGrowthRequestChan' = volumeGrowthRequestChan
    /\ Len(volumeGrowthRequestChan') > Len(volumeGrowthRequestChan) =>
          /\ scanPc \in {"send", "sendDc"}
          /\ volumeGrowthRequestChan' = Append(volumeGrowthRequestChan, scanReq)
    /\ BagCardinality(growing') > BagCardinality(growing) =>
          /\ dispPc = "decide"
          /\ growing' = growing (+) SetToBag({Worker(req)})
FailedGrowthIsNotRetried == [][NoRetryStep]_vars
\* a growth has failed and is about to release its guard
FailedGrowthWitness ==
    \E w \in Workers :
        /\ w.stage = "run" /\ w.run.pc = "ret" /\ w.run.err
        /\ growRequest[w.req.layout]

\* C17: once leadership has been lost while an accepted growth was running,
\* no response is broadcast for the locations of that growth.
BroadcastStep ==
    \E w \in Workers : \E v \in BagToSet(growing') :
        /\ v.req = w.req
        /\ Len(v.run.sent) = Len(w.run.sent) + 1
        /\ CopiesIn(w, growing') < CopiesIn(w, growing)
NoBroadcastOffLeader == [][BroadcastStep => isLeader]_vars

\* the layout a Statistics request selects
SelectedLayoutKey(call) ==
    LET replication == IF call.replication = "" THEN "000" ELSE call.replication
    IN  VolumeLayoutKey(IF replication = "000" THEN <<0, 0, 0>> ELSE <<0, 0, 1>>,
                        call.ttl)

\* C18: a Statistics call that passed the leader check with a replication
\* ("" standing for the default) and a ttl that parse returns without error
\* totalSize = maximum volume count times the volume size limit in bytes,
\* and the usedSize and fileCount of the layout's Stats().
StatisticsReportsSizes ==
    (/\ adminPc = "done" /\ adminCall.method = "Statistics"
     /\ adminRet # "NotLeader"
     /\ adminCall.replication \in {"", "000", "001"} /\ adminCall.ttl \in {"", "3m"})
    => (/\ adminRet = "ok"
        /\ adminResp # NoResp
        /\ adminResp.TotalSize = maxVolumeCount * (VolumeSizeLimitMB * 1048576)
        /\ SelectedLayoutKey(adminCall) \in DOMAIN layoutIndex
        /\ adminResp.UsedSize = layoutIndex[SelectedLayoutKey(adminCall)].UsedSize
        /\ adminResp.FileCount = layoutIndex[SelectedLayoutKey(adminCall)].FileCount)
\* the default replication selects a layout with files, on a Topology with
\* volumes
StatisticsWitness ==
    /\ adminPc = "done" /\ adminCall.method = "Statistics" /\ adminRet = "ok"
    /\ adminCall.replication = ""
    /\ adminResp.UsedSize > 0 /\ adminResp.TotalSize > 0

\* C19: DisableVacuum and EnableVacuum pass their entry whatever IsLeader()
\* says and never return NotLeader; the call returns without error and
\* leaves the vacuum switch disabled (DisableVacuum) or enabled
\* (EnableVacuum) whatever it was before; nothing else changes the switch.
ToggleStep ==
    /\ (/\ adminCall.method \in {"DisableVacuum", "EnableVacuum"}
        /\ adminPc = "entry" /\ adminPc' # "entry")
         => (adminPc' = "body" /\ adminRet' = "none")
    /\ (/\ adminCall.method \in {"DisableVacuum", "EnableVacuum"}
        /\ adminPc = "body" /\ adminPc' # "body")
         => (/\ adminPc' = "done" /\ adminRet' = "ok"
             /\ isDisableVacuum' = (adminCall.method = "DisableVacuum"))
    /\ (isDisableVacuum' # isDisableVacuum)
         => (adminCall.method \in {"DisableVacuum", "EnableVacuum"} /\ adminPc = "body")
VacuumTogglesAreIdempotent == [][ToggleStep]_vars
\* DisableVacuum is called off the leader with the vacuum already disabled
ToggleWitness ==
    /\ adminPc = "body" /\ adminCall.method = "DisableVacuum"
    /\ ~isLeader /\ isDisableVacuum

(***************************************************************************)
(* Properties of fs.verify.                                                *)
(***************************************************************************)
\* C20: with -concurrency N > 0 at most N verifyChunk calls run against one
\* volume server at any instant, and once Do is past its wait (printing,
\* closing the channels or returned) no verification goroutine is left.
VerifyIsBoundedAndJoined ==
    /\ verifyArgs.concurrency > 0 =>
          \A s \in VolumeServers : verifyRunning[s].verify <= verifyArgs.concurrency
    /\ (verifyPc \in {"print", "close", "returned"} \/ verifyClosed # {}) =>
          verifyRunning = NoGoroutines
\* a server is verifying N chunks and the next chunk waits for its channel
VerifyWitness ==
    /\ verifyPc = "send" /\ verifyArgs.concurrency > 0
    /\ verifyRunning[Head(verifyTodo)].verify = verifyArgs.concurrency
    /\ verifyChan[Head(verifyTodo)] = verifyArgs.concurrency

(***************************************************************************)
(* Properties of volume.recycle.                                           *)
(***************************************************************************)
\* C21: a run of volume.recycle without -force makes no deleteVolume call.
RecycleWithoutForceDeletesNothing ==
    ~recycleArgs.force => recycleCalls = <<>>

(***************************************************************************)
(* Properties of the scanner and the dispatcher.                           *)
(***************************************************************************)
\* a step of the scanner that calls AddGrowRequest or sends a request
ScannerPublishStep ==
    \/ Len(volumeGrowthRequestChan') > Len(volumeGrowthRequestChan)
    \/ (scanReq' # scanReq /\ scanReq' # NoReq)
    \/ \E l \in Layouts : growRequest'[l] /\ ~growRequest[l]

\* C22: the scanner calls AddGrowRequest and publishes a request only at
\* moments when IsLeader() is true, also when leadership changes in the
\* middle of a scan.
ScannerPublishesOnlyOnLeader == [][ScannerPublishStep => isLeader]_vars

\* the scanner has taken a step
ScannerMoved == <<scanPc, scanIdx, scanDc>>' # <<scanPc, scanIdx, scanDc>>
\* the range loop of line 44 goes on with the layout after scanIdx
NextLayoutOrSleep ==
    \/ scanPc' = "sleep"
    \/ scanPc' = "layout" /\ scanIdx' = scanIdx + 1

\* C23: in one scan a layout whose guard is set when examined gets no
\* AddGrowRequest and no request; a layout whose guard is free and whose
\* ShouldGrowVolumes answers true gets the guard set and one request with
\* Option = ToGrowOption(), Count = GetLastGrowCount(), Force = false and
\* Reason "collection autogrow", which is sent once, and the scan goes to the
\* next layout without asking about any data center.
CollectionScanStep ==
    /\ (scanPc = "layout" /\ ScannerMoved) =>
          LET l == LayoutList[scanIdx] IN
          /\ volumeGrowthRequestChan' = volumeGrowthRequestChan
          /\ IF growRequest[l]
             THEN /\ growRequest' = growRequest /\ scanReq' = NoReq
                  /\ NextLayoutOrSleep
             ELSE \/ /\ scanPc' = "send"
                     /\ growRequest' = [growRequest EXCEPT ![l] = TRUE]
                     /\ scanReq' = [layout |-> l, dc |-> "", force |-> FALSE,
                                    count |-> U32(MaxCount),
                                    reason |-> "collection autogrow", dones |-> 0]
                  \/ /\ scanPc' = "dc" /\ scanIdx' = scanIdx
                     /\ growRequest' = growRequest /\ scanReq' = NoReq
    /\ (scanPc = "send" /\ ScannerMoved) =>
          /\ volumeGrowthRequestChan' = Append(volumeGrowthRequestChan, scanReq)
          /\ scanReq' = NoReq /\ growRequest' = growRequest
          /\ NextLayoutOrSleep
CollectionScanPublishesOnce == [][CollectionScanStep]_vars
\* the scanner examines a layout whose guard is set, after it has published
\* the collection request of the other layout
CollectionScanWitness ==
    /\ scanPc = "layout" /\ growRequest[LayoutList[scanIdx]]
    /\ \E i \in 1..Len(volumeGrowthRequestChan) :
          /\ volumeGrowthRequestChan[i].layout # LayoutList[scanIdx]
          /\ volumeGrowthRequestChan[i].reason = "collection autogrow"

\* the loop of line 57 goes on with the data center after scanDc, or the
\* loop of line 44 with the next layout
NextDcOrLayout ==
    IF scanDc < Len(DcList)
    THEN scanPc' = "dc" /\ scanIdx' = scanIdx /\ scanDc' = scanDc + 1
    ELSE NextLayoutOrSleep

\* C24: the data centers of a layout are examined only after the layout's
\* guard was found free and its collection-level ShouldGrowVolumes answered
\* false (no collection request was made); for each data center dc whose
\* ShouldGrowVolumesByDataNode answers true the guard is set and one request
\* is sent with Option = ToGrowOption() but DataCenter = dc, and Force = true.
PerDcScanStep ==
    /\ (scanPc' = "dc" /\ ScannerMoved) =>
          \/ /\ scanPc = "layout" /\ ~growRequest[LayoutList[scanIdx]]
             /\ scanIdx' = scanIdx /\ scanDc' = 1
             /\ scanReq = NoReq /\ scanReq' = NoReq /\ growRequest' = growRequest
          \/ /\ scanPc \in {"dc", "sendDc"}
             /\ scanIdx' = scanIdx /\ scanDc' = scanDc + 1
    /\ (scanPc = "dc" /\ ScannerMoved) =>
          /\ volumeGrowthRequestChan' = volumeGrowthRequestChan
          /\ \/ /\ scanPc' = "sendDc" /\ scanIdx' = scanIdx /\ scanDc' = scanDc
                /\ growRequest' = [growRequest EXCEPT ![LayoutList[scanIdx]] = TRUE]
                /\ scanReq' = [layout |-> LayoutList[scanIdx], dc |-> DcList[scanDc],
                               force |-> TRUE, count |-> U32(MaxCount),
                               reason |-> "per-dc autogrow", dones |-> 0]
             \/ /\ scanReq' = NoReq /\ growRequest' = growRequest
                /\ NextDcOrLayout
    /\ (scanPc = "sendDc" /\ ScannerMoved) =>
          /\ volumeGrowthRequestChan' = Append(volumeGrowthRequestChan, scanReq)
          /\ scanReq' = NoReq /\ growRequest' = growRequest
          /\ NextDcOrLayout
PerDcScanPublishesForced == [][PerDcScanStep]_vars
\* the request of the second data center is about to be sent while the
\* request of the first one, of the same layout, is queued
PerDcScanWitness ==
    /\ scanPc = "sendDc" /\ scanReq.dc = DcList[2] /\ scanReq.force
    /\ \E i \in 1..Len(volumeGrowthRequestChan) :
          /\ volumeGrowthRequestChan[i].layout = scanReq.layout
          /\ volumeGrowthRequestChan[i].dc = DcList[1]

\* C25: on the leader a dequeued request that is not a duplicate is accepted
\* exactly when it is forced or ShouldGrowVolumes still answers true: the
\* re-check never discards a forced request, a request it discards is not
\* forced, and the discard calls DoneGrowRequest and starts no growth.
RecheckRule ==
    \A r \in {req} \cup ChanRequests : \A shouldGrow \in BOOLEAN :
        ~Discards(FALSE, r, shouldGrow) <=> (r.force \/ shouldGrow)
RecheckStep ==
    /\ (dispPc = "decide" /\ ~found /\ dispPc' # "decide") =>
          \/ /\ dispPc' = "recv" /\ req' = NoReq
             /\ filter' = filter (+) SetToBag({KeyOf(req)})
             /\ growing' = growing (+) SetToBag({Worker(req)})
             /\ growRequest' = growRequest
          \/ /\ ~req.force
             /\ dispPc' = "discard" /\ req' = req
             /\ filter' = filter /\ growing' = growing
             /\ growRequest' = growRequest
    /\ (dispPc = "discard" /\ dispPc' # "discard") =>
          /\ dispPc' = "recv"
          /\ growRequest' = [growRequest EXCEPT ![req.layout] = FALSE]
          /\ retired' = retired \cup {req.dones + 1}
          /\ filter' = filter /\ growing' = growing /\ free' = free
RecheckDecidesAcceptance == []RecheckRule /\ [][RecheckStep]_vars
\* a request that is neither forced nor a duplicate is being discarded
RecheckWitness ==
    /\ dispPc = "discard" /\ ~found /\ ~req.force /\ isLeader

\* the requests the scanner creates
RequestKeys ==
    {KeyOf(NewRequest(o, GetLastGrowCount(o.layout), o.dc # "",
                      IF o.dc # "" THEN "per-dc autogrow" ELSE "collection autogrow"))
       : o \in Options}
\* the in-flight set holds exactly the requests of the growth goroutines
\* that have not yet run line 117
InFlightAreTheGrowths ==
    /\ \A w \in Workers : CopiesIn(KeyOf(w.req), filter) >= CopiesIn(w, growing)
    /\ \A k \in BagToSet(filter) : \E w \in Workers : KeyOf(w.req) = k
    /\ BagCardinality(filter) = BagCardinality(growing)
\* the goroutine of an accepted request calls DoneGrowRequest at the end of
\* its growth and takes the request out of the in-flight set in its next step
CompletionStep ==
    \A w \in Workers :
        CopiesIn(w, growing') < CopiesIn(w, growing) =>
            /\ (w.stage = "run" /\ w.run.pc = "ret") =>
                  /\ growing' = Replace(w, [req |-> CallDone(w.req), run |-> IdleRun,
                                            stage |-> "delete"])
                  /\ ~growRequest'[w.req.layout]
                  /\ filter' = filter
            /\ w.stage = "delete" =>
                  /\ w.req.dones = 1
                  /\ filter' = filter (-) SetToBag({KeyOf(w.req)})
                  /\ growing' = growing (-) SetToBag({w})
            /\ (w.stage = "run" /\ w.run.pc # "ret") => filter' = filter

\* C26: an accepted request is in the in-flight set from before its growth
\* starts; when the growth ends, with or without error, DoneGrowRequest is
\* called first and the request leaves the in-flight set afterwards; under
\* fair scheduling every request put in the in-flight set leaves it (a
\* request is again and again absent from the set, which says the same as
\* "in the set leads to not in the set").
InFlightIsRemovedAfterDone ==
    /\ []InFlightAreTheGrowths
    /\ [][CompletionStep]_vars
    /\ \A k \in RequestKeys : []<>(CopiesIn(k, filter) = 0)
\* a growth has ended and called DoneGrowRequest, and its request is still in
\* the in-flight set
InFlightWitness ==
    \E w \in Workers :
        /\ w.stage = "delete" /\ w.req.dones = 1
        /\ CopiesIn(KeyOf(w.req), filter) = 1
        /\ ~growRequest[w.req.layout]

\* C27: from the AddGrowRequest made for a request until the
\* DoneGrowRequest of that same request the guard of its layout stays set:
\* while a request of a layout is held by the scanner, queued, examined or
\* growing, the layout's HasGrowRequest is true.
GuardHeldWhileOutstanding ==
    \A l \in Layouts : OutstandingOf(l) > 0 => growRequest[l]

\* C28: whenever the dispatcher discards a request as a duplicate, the
\* growth of an equal request is running at that moment (its goroutine has
\* not yet called DoneGrowRequest).
DuplicateMeansGrowthRunning ==
    (dispPc = "discard" /\ found) =>
        \E w \in Workers : w.stage = "run" /\ Equals(w.req, req)

(***************************************************************************)
(* Properties of DoAutomaticVolumeGrow.                                    *)
(***************************************************************************)
\* C29: a DoAutomaticVolumeGrow whose grow call returned an error has
\* returned without handing any response to broadcastToClients, also when
\* the call returned volume locations together with the error.
ErrorMeansNoBroadcast ==
    \A run \in RunsOfGrowth : run.err => (run.pc = "ret" /\ run.sent = <<>>)
\* the grow call created a volume and then failed
ErrorWithLocationsWitness ==
    /\ rpcPc = "done" /\ rpcRun.err /\ rpcRun.locs # <<>>

(***************************************************************************)
(* Properties of VolumeMarkReadonly.                                       *)
(***************************************************************************)
\* the (volume, data node) pair a VolumeMarkReadonly request names
NamedReplica(call) == <<call.volumeId, [Ip |-> call.ip, Port |-> call.port]>>
ReplicaExists(pair) == pair[2] \in DataNodesOf(pair[1])

\* C30: the step of VolumeMarkReadonly that runs on the leader returns
\* without error; the replica of the request's volume on the data node with
\* the request's ip and port becomes read-only when isReadonly and writable
\* otherwise; the state of every other replica, of the same volume or of
\* another one, stays as it was, and when no data node of the volume has
\* that ip and port no replica changes state.
MarkReadonlyStep ==
    (/\ adminPc = "body" /\ adminCall.method = "VolumeMarkReadonly"
     /\ adminPc' # "body")
    => LET named == NamedReplica(adminCall) IN
       /\ adminPc' = "done" /\ adminRet' = "ok"
       /\ \A pair \in (readonly \cup readonly') \ {named} :
             (pair \in readonly') <=> (pair \in readonly)
       /\ IF ReplicaExists(named)
          THEN (named \in readonly') <=> adminCall.isReadonly
          ELSE readonly' = readonly
       /\ UNCHANGED <<topoVars, isDisableVacuum, vacuumCalls, maxVolumeCount,
                      ctlState>>
LookupVidStep ==
    LookupVolumeNext =>
        VidOf(lookupIds[lookupAt]) = BeforeComma(lookupIds[lookupAt])
\* C31: for every input string of LookupVolume, the volume id used to find
\* its locations is the part of the string before its first comma (the
\* whole string when it has no comma), also when the first character of the
\* input is a comma.
LookupUsesPartBeforeComma == [][LookupVidStep]_vars

\* C32: growth for different layouts runs in parallel: whatever growths are
\* running, the dispatcher can dequeue the next request and decide on it, so
\* it never waits for a growth to finish.
DispatcherNeverWaitsForGrowth ==
    /\ (dispPc = "recv" /\ volumeGrowthRequestChan # <<>>) => ENABLED DispRecv
    /\ dispPc = "leader" => ENABLED DispLeaderCheck
    /\ dispPc = "range" => ENABLED DispRange
    /\ dispPc = "decide" => ENABLED DispDecide
\* two growths of different layouts are inside AutomaticGrowByType at the
\* same time
ParallelGrowthWitness ==
    \E v, w \in BagToSet(growing) :
        /\ v.req.layout # w.req.layout
        /\ v.stage = "run" /\ v.run.pc = "grow"
        /\ w.stage = "run" /\ w.run.pc = "grow"

\* the scanner stands at a channel send
SendPending == scanPc \in {"send", "sendDc"}
\* the stream never holds more than its capacity, and a scanner standing at
\* a send is never stuck together with the dispatcher
StreamNeverStuck ==
    /\ Len(volumeGrowthRequestChan) <= chanCap
    /\ SendPending => ENABLED (Scanner \/ Dispatcher \/ Handoff)
\* a request that leaves the scanner enters the stream or the dispatcher's
\* hands; the stream changes only by a send at its tail or a receive at its
\* head; the dispatcher takes a request only from the head of the stream or
\* straight from the scanner
StreamStep ==
    /\ (scanReq # NoReq /\ scanReq' # scanReq) =>
          /\ scanReq' = NoReq
          /\ \/ /\ volumeGrowthRequestChan' = Append(volumeGrowthRequestChan, scanReq)
                /\ req' = req
             \/ /\ volumeGrowthRequestChan' = volumeGrowthRequestChan
                /\ req = NoReq /\ req' = scanReq
    /\ volumeGrowthRequestChan' # volumeGrowthRequestChan =>
          \/ /\ scanReq # NoReq
             /\ volumeGrowthRequestChan' = Append(volumeGrowthRequestChan, scanReq)
          \/ /\ volumeGrowthRequestChan # <<>>
             /\ volumeGrowthRequestChan' = Tail(volumeGrowthRequestChan)
             /\ req = NoReq /\ req' = Head(volumeGrowthRequestChan)
    /\ (req = NoReq /\ req' # NoReq) =>
          \/ /\ volumeGrowthRequestChan # <<>>
             /\ req' = Head(volumeGrowthRequestChan)
             /\ volumeGrowthRequestChan' = Tail(volumeGrowthRequestChan)
          \/ /\ scanReq # NoReq
             /\ req' = scanReq /\ scanReq' = NoReq
\* C33: for every capacity of the request stream from zero up, the scanner
\* and the dispatcher never deadlock and no published request is dropped: a
\* send of the scanner always completes, the dispatcher always comes back to
\* the receive, a request never waits in the stream in front of a
\* dispatcher that stays at the receive, and every request sent is dequeued
\* exactly once, in the order sent.
StreamDeliversEveryRequest ==
    /\ []StreamNeverStuck
    /\ [][StreamStep]_vars
    /\ []<>(~SendPending)
    /\ []<>(dispPc = "recv")
    /\ []<>(dispPc # "recv" \/ volumeGrowthRequestChan = <<>>)
\* on a stream of capacity zero the scanner waits at a send while the
\* dispatcher examines the request handed to it before
StreamWitness ==
    /\ chanCap = 0
    /\ scanPc = "send" /\ scanReq # NoReq
    /\ dispPc = "decide" /\ req # NoReq

\* the request's replication (the default when empty) or its TTL does not
\* parse
ParseFails(replication, ttl) ==
    \/ ~ReplicationParses(IF replication = "" THEN DefaultReplicaPlacement
                          ELSE replication)
    \/ ~TtlParses(ttl)
ParseErrors == {"InvalidReplication", "InvalidTTL"}
\* the step of Statistics or VolumeGrow that has passed the leader check and
\* parses a request that does not parse: the call ends with a parse error,
\* with no response, no layout created, no growth started and the topology
\* untouched
ParseErrorStep ==
    /\ (Statistics /\ ParseFails(adminCall.replication, adminCall.ttl)) =>
          /\ adminPc' = "done" /\ adminRet' \in ParseErrors
          /\ adminResp' = NoResp
          /\ UNCHANGED <<layoutIndex, topoVars, ctlVars, rpcVars>>
    /\ (VolumeGrowParse /\ ParseFails(rpcReq.replication, rpcReq.ttl)) =>
          /\ rpcPc' = "done" /\ rpcRet' \in ParseErrors
          /\ UNCHANGED <<rpcOption, rpcRun, layoutIndex, topoVars, ctlVars>>
\* a call that ended with a parse error has built no option, started no
\* growth and left the free slots as they were when it arrived
ParseErrorLeavesNoTrace ==
    (rpcPc = "done" /\ rpcRet \in ParseErrors) =>
        rpcOption = NoOption /\ rpcRun = IdleRun /\ free = rpcFree0
\* C34: on the leader, Statistics and VolumeGrow return an error when the
\* replication string or the TTL of the request fails to parse, and in that
\* case create no layout, run no capacity check and start no growth.
ParseErrorsCreateNothing ==
    /\ [][ParseErrorStep]_vars
    /\ []ParseErrorLeavesNoTrace
    /\ [](adminPc = "done" /\ adminCall.method = "Statistics"
            /\ adminRet # "NotLeader"
            /\ ParseFails(adminCall.replication, adminCall.ttl)
          => adminRet \in ParseErrors /\ adminResp = NoResp)
    /\ [](rpcPc = "done" /\ rpcRet # "NotLeader"
            /\ ParseFails(rpcReq.replication, rpcReq.ttl)
          => rpcRet \in ParseErrors)
\* a VolumeGrow call whose TTL does not parse has returned InvalidTTL
ParseErrorWitness ==
    /\ rpcPc = "done" /\ rpcReq.ttl = "3x" /\ rpcReq.replication = ""
    /\ rpcRet = "InvalidTTL"

\* C35: the pause between two scans of the scanner on the leader is at
\* least 14 minutes and at most 16 minutes, for every value of the random
\* jitter.
PauseWithinWindow ==
    scanPause # 0 => 14 * 60 <= scanPause /\ scanPause <= 16 * 60
\* the longest pause: the largest value of rand.Float32 gives 119 seconds
\* of jitter
LongestPauseWitness ==
    /\ sleepRand = 2^24 - 1
    /\ scanPause = 14 * 60 + 119

\* C36: in fs.verify the error counter is incremented at most once per
\* verified entry, however many of its chunks or replicas fail, in
\* sequential mode and when the chunk verifications run concurrently.
ErrorCountedOncePerEntry == errorCount <= 1

\* C37: in fs.verify an entry is counted as a verified file only if every
\* chunk verification of the entry succeeded, so no entry is counted both
\* as verified and as an error, in sequential mode and with concurrency.
VerifiedMeansAllChunksOk ==
    entryPc = "done" =>
        /\ fileCount = 1 => \A i \in 1..Len(entryTodo) : ~entryTodo[i].fails
        /\ ~(fileCount = 1 /\ errorCount > 0)

\* C38: when collecting the volume ids from the topology fails, fs.verify's
\* Do returns a non-nil error and verifies nothing.
CollectFailureReturnsError ==
    (/\ verifyPc = "returned"
     /\ verifyArgs.flagsParse /\ verifyArgs.urlParses /\ verifyArgs.collectErr) =>
        /\ verifyRet \notin {"none", "nil"}
        /\ verifyTodo = <<>> /\ verifyRunning = NoGoroutines

\* C39: with no delete and no reload in between, all calls of
\* GetAccessControlPolicy for one bucket return the same policy object, also
\* when several callers ask at once for a bucket that has no policy yet:
\* the object a call has returned is the one the policies map holds.
SamePolicyObjectPerBucket ==
    \A r \in acpReturned : r[1] \in DOMAIN policies /\ policies[r[1]] = r[2]

\* the request reaches the owner check of an existing object: the bucket is
\* found and not BucketOwnerEnforced, the ACL of the request is accepted
\* and the requester has write access to the bucket
ReachesOwnerCheck(r) ==
    /\ r.bucketErr = "ErrNone" /\ r.extractErr = "ErrNone"
    /\ r.ObjectOwnership # "BucketOwnerEnforced"
    /\ CheckBucketAccess(r.requestAccountId, r)
    /\ r.entry.err = "nil"
\* the owner the request names: the requester when it names none
NamedOwner(r) ==
    IF r.requestOwnerId = "" THEN r.requestAccountId ELSE r.requestOwnerId
\* C40: in checkAccessForWriteObject, for a bucket that is not
\* BucketOwnerEnforced and an object that exists, a requester with write
\* access to the bucket who is the owner of the object may overwrite it
\* (ErrNone), and a request that names another owner than the object's is
\* denied.
ObjectOwnerMayOverwrite ==
    (writePc = "done" /\ ReachesOwnerCheck(writeReq)) =>
        LET objectOwnerId == GetAcpOwner(writeReq.entry, writeReq.bucketOwner)
        IN  /\ (/\ writeReq.requestAccountId = objectOwnerId
                /\ NamedOwner(writeReq) = objectOwnerId) =>
                   writeRet.code = "ErrNone"
            /\ NamedOwner(writeReq) # objectOwnerId =>
                   writeRet.code = "ErrAccessDenied"

=============================================================================
